---- MODULE Spec2Model ----
(***************************************************************************)
(* Model of the bucket manager (scripts/bucket-manager.py: cmd_copy,       *)
(* cmd_delete, cmd_policy, list_objects), of the client sync               *)
(* (scripts/sync-clients.py: main) and of get_s3_client of the three       *)
(* scripts.                                                                *)
(*                                                                         *)
(* One behaviour is one run of one command.  The remote stores are part    *)
(* of the state; every remote call draws its outcome from Outcomes:        *)
(*   "ok"          the call returns,                                       *)
(*   "ClientError" the service answers with an error response              *)
(*                 (botocore.exceptions.ClientError: 403, 404, ...),       *)
(*   "Other"       the call raises any other exception (connection error,  *)
(*                 read timeout), which `except ClientError` does not      *)
(*                 catch.                                                  *)
(* An exception that no handler catches ends the run with a traceback and  *)
(* exit status 1.                                                          *)
(***************************************************************************)
EXTENDS Integers, Sequences, FiniteSets, TLC

VARIABLES
    cmd,            \* the command of this run: "copy" | "delete" | "sync" | "policy",
                    \* or the function run on its own: "list_objects" | "get_s3_client"
    pc,             \* position of the run in the command's code
    args,           \* parsed command line (args.yes, args.create_target)
    buckets,        \* remote store: bucket name -> [exists, objs: key -> object]
    objects,        \* cmd_copy / cmd_delete: the listing (sequence of keys)
    idx,            \* number of listed objects the loop has consumed
    success_count,  \* cmd_copy: success_count
    failed_count,   \* cmd_copy: failed_count
    calls,          \* remote calls issued so far, in order, with their outcome
    out,            \* what the run has printed: sequence of reports
    rc,             \* exit status handed to the calling process (valid at "done")
    traceback,      \* TRUE when the run ended by an uncaught exception
    confirmed,      \* TRUE once the run got past the confirmation (--yes or a "y")
    release,        \* sync: the release the lookup returned (tag_name, assets, body)
    crabnebula_downloads,  \* sync: downloads parsed from the release body
    clients,        \* sync: the bucket BUCKET_NAME: [exists, objs: key -> object]
    temp_dir,       \* sync: "none" | "created" | "removed"
    temp_files,     \* sync: names of the files in temp_dir
    results,        \* sync: results, a sequence of <<filename, status, color>>
    start,          \* how the run started: the target bucket then, and the
                    \* earlier runs of the command on the same stores
    script,         \* the script the process runs
    endpoint,       \* get_s3_client: the address (--endpoint or S3_HOSTNAME)
    endpoint_url,   \* get_s3_client: the endpoint_url handed to boto3.client
    iam,            \* cmd_policy: the server's user, policy and attachments
    policy_file     \* cmd_policy: the temporary policy file: "none" | "written" | "removed"

bucketVars == <<buckets, objects, success_count, failed_count>>
syncVars == <<release, crabnebula_downloads, clients, temp_dir, temp_files, results>>
clientVars == <<script, endpoint, endpoint_url>>
policyVars == <<iam, policy_file>>

vars == <<cmd, pc, args, buckets, objects, idx, success_count, failed_count,
          calls, out, rc, traceback, confirmed, release, crabnebula_downloads, clients,
          temp_dir, temp_files, results, start, script, endpoint, endpoint_url,
          iam, policy_file>>

----------------------------------------------------------------------------
(* Bounds and program constants *)

\* largest number of objects in the source bucket of a copy run
MaxObjects == 3

\* a listing takes at most MaxPages requests; list_objects alone is tried on
\* buckets of up to MaxPages objects
MaxPages == 7

\* the copy command is run again at most MaxReruns times
MaxReruns == 1

\* a delete run lists up to MaxBatches full batches
MaxBatches == 3

\* for i in range(0, len(objects), 1000): batch = objects[i:i+1000]
BatchSize == 1000

Outcomes == {"ok", "ClientError", "Other"}

SourceBucket == "videos"
TargetBucket == "media"
BucketNames == {SourceBucket, TargetBucket}

Min(a, b) == IF a < b THEN a ELSE b

\* ceil(n / d) for n >= 0, d > 0
CeilDiv(n, d) == (n + d - 1) \div d

\* numbers of objects a delete run is tried on: around every batch boundary
DeleteCounts ==
    {k * BatchSize + d : k \in 0 .. (MaxBatches - 1), d \in {0, 1, BatchSize \div 2, BatchSize - 1}}
        \cup {MaxBatches * BatchSize}

\* the object stored under key k of the source bucket (key k is the k-th key
\* in listing order); sizes 10, 20, 0, ...
SourceObject(k) == [size |-> (10 * k) % 30,
                    ctype |-> IF k % 2 = 1 THEN "text/plain" ELSE "video/mp4"]

\* an object already in the target bucket before the run
StaleObject == [size |-> 7, ctype |-> "application/octet-stream"]

EmptyObjs == [k \in {} |-> StaleObject]

Keys(b) == DOMAIN buckets[b].objs

\* the keys 1..n in listing order
KeySeq(n) == [i \in 1 .. n |-> i]

\* pattern in text: the text holds the pattern as a run of its pieces
Contains(name, pattern) ==
    \E i \in 1 .. (Len(name) - Len(pattern) + 1) :
        SubSeq(name, i, i + Len(pattern) - 1) = pattern

\* text.startswith(prefix)
StartsWith(text, prefix) ==
    Len(text) >= Len(prefix) /\ SubSeq(text, 1, Len(prefix)) = prefix

----------------------------------------------------------------------------
(* get_s3_client *)

\* An address is a sequence of pieces of text; 'https' is 'http' followed by 's'.
HTTP == <<"http">>
HTTPS == <<"http", "s">>

Scripts == {"bucket-manager.py", "sync-clients.py", "setup-client-bucket.py"}

\* the schemes an address may carry: none, http://, https://
AddressSchemes == {<< >>, HTTP \o <<"://">>, HTTPS \o <<"://">>}

\* host names: the loopback names, a name inside the cluster, an external
\* name, a name that holds 'localhost', a name that starts with 'http'
AddressHosts ==
    {<<"localhost">>, <<"127.0.0.1">>, <<"minio">>, <<"s3.example.com">>,
     <<"my", "localhost", ".example.com">>, <<"http", "bin.example.com">>}

\* ports: none, the local storage port, another port
AddressPorts == {<< >>, <<":9000">>, <<":443">>}

Endpoints == {s \o h \o p : s \in AddressSchemes, h \in AddressHosts, p \in AddressPorts}

\* os.environ.get('S3_HOSTNAME', 'localhost:9000')
DefaultEndpoint == <<"localhost", ":9000">>

\* if 'localhost' in endpoint or '127.0.0.1' in endpoint or ':9000' in endpoint:
\*     protocol = 'http' else: protocol = 'https'
Protocol(address) ==
    IF \/ Contains(address, <<"localhost">>)
       \/ Contains(address, <<"127.0.0.1">>)
       \/ Contains(address, <<":9000">>)
    THEN HTTP ELSE HTTPS

\* f"{protocol}://{endpoint}"
Prefixed(address) == Protocol(address) \o <<"://">> \o address

\* Mutant: bucket-manager.py puts the protocol in front of every address
bucket_manager_endpoint_url_always(address) == Prefixed(address)

\* bucket-manager.py: if not endpoint.startswith('http'): the protocol is put
\* in front, else endpoint_url = endpoint
bucket_manager_endpoint_url(address) ==
    IF ~StartsWith(address, HTTP) THEN Prefixed(address) ELSE address

\* sync-clients.py: endpoint_url = f"{protocol}://{endpoint}"
sync_clients_endpoint_url(address) == Prefixed(address)

\* setup-client-bucket.py: endpoint_url = f"{protocol}://{endpoint}"
setup_client_bucket_endpoint_url(address) == Prefixed(address)

\* the endpoint_url get_s3_client of script s hands to boto3.client
EndpointUrl(s, address) ==
    CASE s = "bucket-manager.py" -> bucket_manager_endpoint_url(address)
      [] s = "sync-clients.py" -> sync_clients_endpoint_url(address)
      [] s = "setup-client-bucket.py" -> setup_client_bucket_endpoint_url(address)

\* the script a command belongs to
ScriptOf(c) == IF c = "sync" THEN "sync-clients.py" ELSE "bucket-manager.py"

----------------------------------------------------------------------------
(* Remote calls *)

Call(op, bucket, outcome) == [op |-> op, bucket |-> bucket, outcome |-> outcome]

KeyCall(op, bucket, key, outcome) ==
    [op |-> op, bucket |-> bucket, key |-> key, outcome |-> outcome]

BatchCall(bucket, lo, hi, outcome) ==
    [op |-> "delete_objects", bucket |-> bucket, lo |-> lo, hi |-> hi, outcome |-> outcome]

\* head_bucket on a bucket that does not exist cannot return
HeadOutcomes(b) == IF buckets[b].exists THEN Outcomes ELSE Outcomes \ {"ok"}

\* create_bucket on a bucket that exists is refused
CreateOutcomes(b) == IF buckets[b].exists THEN Outcomes \ {"ok"} ELSE Outcomes

\* delete_bucket is refused unless the bucket exists and is empty
DeleteBucketOutcomes(b) ==
    IF buckets[b].exists /\ Keys(b) = {} THEN Outcomes ELSE Outcomes \ {"ok"}

\* object calls need the bucket
ObjectOutcomes(b) == IF buckets[b].exists THEN Outcomes ELSE Outcomes \ {"ok"}

GetOutcomes(b, key) ==
    IF buckets[b].exists /\ key \in Keys(b) THEN Outcomes ELSE Outcomes \ {"ok"}

\* the run ends: return <code>
Return(code) ==
    /\ pc' = "done"
    /\ rc' = code
    /\ traceback' = FALSE

\* an exception no handler catches: traceback, exit status 1
Uncaught ==
    /\ pc' = "done"
    /\ rc' = 1
    /\ traceback' = TRUE

----------------------------------------------------------------------------
(* list_objects *)

\* one list_objects_v2 request of the paginator: the continuation token (the
\* number of keys before the page) and the KeyCount of the response
ListCall(b, token, count, outcome) ==
    [op |-> "list_objects_v2", bucket |-> b, token |-> token, count |-> count,
     outcome |-> outcome]

\* the numbers of keys the server may put on one page
PageSizes(n) ==
    {ps \in (1 .. MaxPages) \cup {BatchSize \div 2, BatchSize} : CeilDiv(n, ps) <= MaxPages}

\* a bucket without keys is listed in one page
NumPages(n, ps) == IF n = 0 THEN 1 ELSE CeilDiv(n, ps)

\* page j of paginator.paginate(Bucket=bucket): a page without keys has no
\* 'Contents'
Page(keys, ps, j) ==
    LET lo == (j - 1) * ps + 1
        hi == Min(j * ps, Len(keys))
    IN  IF lo <= hi
        THEN [Contents |-> SubSeq(keys, lo, hi), KeyCount |-> hi - lo + 1]
        ELSE [KeyCount |-> 0]

Pages(keys, ps) == [j \in 1 .. NumPages(Len(keys), ps) |-> Page(keys, ps, j)]

\* Mutant: the page replaces what was collected
Extend_assign(objs, page) ==
    IF "Contents" \in DOMAIN page THEN page.Contents ELSE objs

\* if 'Contents' in page: objects.extend(page['Contents'])
Extend(objs, page) ==
    IF "Contents" \in DOMAIN page THEN objs \o page.Contents ELSE objs

\* for page in ...: the loop over the pages that arrived
RECURSIVE ExtendAll(_, _)
ExtendAll(pages, objs) ==
    IF pages = << >> THEN objs
    ELSE ExtendAll(Tail(pages), Extend(objs, Head(pages)))

\* the ways the pagination of bucket b can go: the page size of the server,
\* the number of pages requested, and the outcome of the last request (every
\* request before it returned); it ends "ok" only with the last page
Paginations(b) ==
    IF ~buckets[b].exists
    THEN [page_size : {1}, requested : {1}, outcome : Outcomes \ {"ok"}]
    ELSE LET n == Cardinality(Keys(b)) IN
         {r \in [page_size : PageSizes(n), requested : 1 .. MaxPages, outcome : Outcomes] :
             /\ r.requested <= NumPages(n, r.page_size)
             /\ r.outcome = "ok" => r.requested = NumPages(n, r.page_size)}

\* the pages that arrived
Returned(run) == IF run.outcome = "ok" THEN run.requested ELSE run.requested - 1

\* the requests the paginator issued
ListCalls(b, run) ==
    LET pages == Pages(KeySeq(Cardinality(Keys(b))), run.page_size) IN
    [j \in 1 .. run.requested |->
        IF j <= Returned(run)
        THEN ListCall(b, (j - 1) * run.page_size, pages[j].KeyCount, "ok")
        ELSE ListCall(b, (j - 1) * run.page_size, 0, run.outcome)]

\* Mutant: what was collected before the failing request is returned
list_objects_partial(b, run) ==
    LET pages == Pages(KeySeq(Cardinality(Keys(b))), run.page_size) IN
    ExtendAll(SubSeq(pages, 1, Returned(run)), << >>)

\* list_objects(s3_client, bucket): the 'Contents' of the pages one after the
\* other, or [] when a request raises ClientError
list_objects(b, run) ==
    LET pages == Pages(KeySeq(Cardinality(Keys(b))), run.page_size) IN
    IF run.outcome = "ClientError"
    THEN << >>
    ELSE ExtendAll(SubSeq(pages, 1, Returned(run)), << >>)

\* console.print("Error listing objects: ...") in the except clause
ListPrints(run) ==
    IF run.outcome = "ClientError" THEN << [kind |-> "list_error"] >> ELSE << >>

----------------------------------------------------------------------------
(* sync-clients.py: tables and the upstream releases *)

BUCKET_NAME == "clients"

\* Names are sequences of tokens; `pattern in name` is "pattern is a contiguous
\* run of the name's tokens".
Mapping(pattern, target_name, content_type) ==
    [pattern |-> pattern, target_name |-> target_name, content_type |-> content_type]

GITHUB_ASSET_MAPPINGS ==
    << Mapping(<<"_x64", "-setup.exe">>, "cap-windows-x64.exe", "application/octet-stream"),
       Mapping(<<"_x64", "_en-US.msi">>, "cap-windows-x64.msi", "application/octet-stream"),
       Mapping(<<"_arm64", "-setup.exe">>, "cap-windows-arm64.exe", "application/octet-stream"),
       Mapping(<<"_universal", ".dmg">>, "cap-macos-universal.dmg", "application/octet-stream"),
       Mapping(<<"_x64", ".dmg">>, "cap-macos-x64.dmg", "application/octet-stream"),
       Mapping(<<"_aarch64", ".dmg">>, "cap-macos-arm64.dmg", "application/octet-stream"),
       Mapping(<<"_amd64", ".AppImage">>, "cap-linux-x64.AppImage", "application/octet-stream"),
       Mapping(<<"_amd64", ".deb">>, "cap-linux-x64.deb", "application/vnd.debian.binary-package"),
       Mapping(<<"_x86_64", ".rpm">>, "cap-linux-x64.rpm", "application/x-rpm") >>

\* The platform patterns are regular expressions A.*B (or a single word A),
\* searched case-insensitively: the lower-cased words in order.
CRABNEBULA_MAPPINGS ==
    << Mapping(<<"macos", "apple silicon">>, "cap-macos-arm64.dmg", "application/octet-stream"),
       Mapping(<<"macos", "intel">>, "cap-macos-x64.dmg", "application/octet-stream"),
       Mapping(<<"windows">>, "cap-windows-x64.exe", "application/octet-stream"),
       Mapping(<<"linux", "appimage">>, "cap-linux-x64.AppImage", "application/octet-stream"),
       Mapping(<<"linux", "deb">>, "cap-linux-x64.deb", "application/vnd.debian.binary-package") >>

CDN_HOST == "cdn.crabnebula.app"

\* re.IGNORECASE on the words used in labels
Lower(w) ==
    CASE w = "macOS" -> "macos"
      [] w = "MacOS" -> "macos"
      [] w = "Apple Silicon" -> "apple silicon"
      [] w = "Intel" -> "intel"
      [] w = "Windows" -> "windows"
      [] w = "WINDOWS" -> "windows"
      [] w = "Linux" -> "linux"
      [] w = "AppImage" -> "appimage"
      [] OTHER -> w

Asset(name, url, size) == [name |-> name, browser_download_url |-> url, size |-> size]

Url(host, path) == [host |-> host, path |-> path]

\* A mention of a download in the release body, in one of the three written
\* forms: "link" [label](url), "bold" **label**: url, "bullet" - label: url
Mention(form, label, url) == [form |-> form, label |-> label, url |-> url]

Release(tag, assets, body) == [tag_name |-> tag, assets |-> assets, body |-> body]

NoRelease == Release("", << >>, << >>)

\* temp_dir holds no file
NoFiles == [n \in {} |-> ""]

\* an older release: structured assets, and a body that also carries a link
ReleaseStructured ==
    Release("cap-v0.3.1",
            << Asset(<<"Cap_0.3.1", "_x64", "-setup.exe">>, Url("github.com", "w.exe"), 30),
               Asset(<<"Cap_0.3.1", "_aarch64", ".dmg">>, Url("github.com", "m.dmg"), 40) >>,
            << Mention("link", <<"macOS", " (", "Apple Silicon", ")">>, Url(CDN_HOST, "x.dmg")) >>)

\* a newer release: no structured assets, downloads only in the body
ReleaseBody ==
    Release("cap-v0.4.1",
            << >>,
            << Mention("link", <<"macOS", " (", "Apple Silicon", ")">>, Url(CDN_HOST, "x.dmg")),
               Mention("bold", <<"Windows">>, Url(CDN_HOST, "y.exe")),
               Mention("bullet", <<"Source">>, Url(CDN_HOST, "src.zip")) >>)

\* a release with one structured asset only
ReleaseSingle ==
    Release("cap-v0.3.0",
            << Asset(<<"Cap_0.3.0", "_amd64", ".deb">>, Url("github.com", "l.deb"), 50) >>,
            << >>)

\* found, but nothing to download
ReleaseEmpty == Release("cap-v0.4.2", << >>, << >>)

\* a release with one structured asset whose name holds two of the patterns
ReleaseOverlap ==
    Release("cap-v0.2.9",
            << Asset(<<"Cap_0.2.9", "_x64", "-setup.exe", "_x64", ".dmg">>,
                     Url("github.com", "b.bin"), 60) >>,
            << >>)

\* no structured assets, and the only link of the body is on another host
ReleaseForeign ==
    Release("cap-v0.4.3",
            << >>,
            << Mention("link", <<"macOS", " (", "Apple Silicon", ")">>, Url("cdn.example", "x.dmg")) >>)

\* no structured assets; the body links to the CDN and to another host, with
\* a label that names two platforms, one in capitals and one that names none
ReleaseMixed ==
    Release("cap-v0.4.4",
            << >>,
            << Mention("link", <<"macOS", " (", "Apple Silicon", ")">>, Url(CDN_HOST, "a.dmg")),
               Mention("link", <<"macOS", " (", "Intel", ")">>, Url("cdn.example", "i.dmg")),
               Mention("bold", <<"macOS", "Apple Silicon", "/", "Intel">>, Url(CDN_HOST, "u.dmg")),
               Mention("bullet", <<"WINDOWS">>, Url(CDN_HOST, "w.exe")),
               Mention("bullet", <<"Checksums">>, Url(CDN_HOST, "sums.txt")) >>)

\* no structured assets; the body mentions one URL in all three forms, under
\* three labels, the bold one first
ReleaseDup ==
    Release("cap-v0.4.5",
            << >>,
            << Mention("bold", <<"Windows">>, Url(CDN_HOST, "d.bin")),
               Mention("link", <<"macOS", " (", "Intel", ")">>, Url(CDN_HOST, "d.bin")),
               Mention("bullet", <<"Linux", "AppImage">>, Url(CDN_HOST, "d.bin")),
               Mention("bullet", <<"Linux", "deb">>, Url(CDN_HOST, "e.deb")) >>)

\* structured assets, one of them with a name no table entry asks for
ReleaseUnmatched ==
    Release("cap-v0.2.8",
            << Asset(<<"latest", ".json">>, Url("github.com", "latest.json"), 1),
               Asset(<<"Cap_0.2.8", "_amd64", ".deb">>, Url("github.com", "k.deb"), 50) >>,
            << >>)

Releases ==
    {ReleaseStructured, ReleaseBody, ReleaseSingle, ReleaseEmpty,
     ReleaseOverlap, ReleaseForeign, ReleaseMixed, ReleaseDup, ReleaseUnmatched}

----------------------------------------------------------------------------
(* run_mc_command and the server's users and policies *)

\* policy_name = f"{args.user}-policy" (or --policy-name)
POLICY_NAME == "cap-policy"

\* a policy the user may hold besides
OTHER_POLICY == "readwrite"

\* no user, no policy
NoIam == [user |-> FALSE, policy |-> "none", attached |-> {}]

\* the states of the server a policy run starts on: the user exists or not,
\* the policy POLICY_NAME is defined (with an older document) or not, and the
\* user holds some of the policies
IamStates ==
    {i \in [user : BOOLEAN, policy : {"none", "old"},
            attached : SUBSET {POLICY_NAME, OTHER_POLICY}] :
        /\ i.attached # {} => i.user
        /\ POLICY_NAME \in i.attached => i.policy # "none"}

\* run_mc_command(cmd): (success, applied). The alias step fails (return
\* code, timeout, mc missing) and the command is not run; the command returns
\* 0; the command returns an error; the command runs into its timeout, with
\* the server having applied it or not. `accepts` says whether the server
\* takes the command in its present state.
run_mc_command(accepts) ==
    {[kind |-> "alias_failed", success |-> FALSE, applied |-> FALSE],
     [kind |-> "error", success |-> FALSE, applied |-> FALSE],
     [kind |-> "timeout", success |-> FALSE, applied |-> FALSE]}
    \cup (IF accepts
          THEN {[kind |-> "ok", success |-> TRUE, applied |-> TRUE],
                [kind |-> "timeout", success |-> FALSE, applied |-> TRUE]}
          ELSE {})

McCall(what, o) == [op |-> "mc", cmd |-> what, outcome |-> o.kind, applied |-> o.applied]

\* finally: os.unlink(policy_file)
UnlinkPolicyFile(f) == "removed"

----------------------------------------------------------------------------
(* Initial states *)

Bucket(exists, n) ==
    [exists |-> exists, objs |-> [k \in 1 .. n |-> SourceObject(k)]]

NoBucket == [exists |-> FALSE, objs |-> EmptyObjs]

\* the target bucket of a copy run: missing, empty, or holding an older
\* object under the first key
TargetStates ==
    {NoBucket,
     [exists |-> TRUE, objs |-> EmptyObjs],
     [exists |-> TRUE, objs |-> [k \in {1} |-> StaleObject]]}

InitCopy ==
    /\ cmd = "copy"
    /\ clients = NoBucket
    /\ pc = "copy_head_source"
    /\ args \in [yes : BOOLEAN, create_target : BOOLEAN, version : {""}]
    /\ \E n \in 0 .. MaxObjects, e \in BOOLEAN, t \in TargetStates :
          buckets = [b \in BucketNames |->
                        IF b = SourceBucket
                        THEN (IF e THEN Bucket(TRUE, n) ELSE NoBucket)
                        ELSE t]

InitDelete ==
    /\ cmd = "delete"
    /\ clients = NoBucket
    /\ pc = "delete_head"
    /\ args \in [yes : BOOLEAN, create_target : {FALSE}, version : {""}]
    /\ \E n \in DeleteCounts, e \in BOOLEAN :
          buckets = [b \in BucketNames |->
                        IF b = SourceBucket
                        THEN (IF e THEN Bucket(TRUE, n) ELSE NoBucket)
                        ELSE NoBucket]

\* the sync starts with an explicit version (args.version or CAP_VERSION) or none
InitSync ==
    /\ cmd = "sync"
    /\ pc = "sync_fetch"
    /\ args \in [yes : {FALSE}, create_target : {FALSE}, version : {"", "cap-v0.4.1", "cap-v0.3.1", "v9.9.9"}]
    /\ buckets = [b \in BucketNames |-> NoBucket]
    /\ clients \in {NoBucket, [exists |-> TRUE, objs |-> EmptyObjs]}

\* list_objects called on a bucket that is missing or holds up to MaxPages objects
InitList ==
    /\ cmd = "list_objects"
    /\ clients = NoBucket
    /\ pc = "list_objects"
    /\ args = [yes |-> FALSE, create_target |-> FALSE, version |-> ""]
    /\ \E n \in 0 .. MaxPages, e \in BOOLEAN :
          buckets = [b \in BucketNames |->
                        IF b = SourceBucket
                        THEN (IF e THEN Bucket(TRUE, n) ELSE NoBucket)
                        ELSE NoBucket]

\* nothing has run yet
InitRun ==
    /\ objects = << >>
    /\ idx = 0
    /\ success_count = 0
    /\ failed_count = 0
    /\ calls = << >>
    /\ out = << >>
    /\ rc = 0
    /\ traceback = FALSE
    /\ confirmed = FALSE
    /\ release = NoRelease
    /\ crabnebula_downloads = << >>
    /\ temp_dir = "none"
    /\ temp_files = NoFiles
    /\ results = << >>
    /\ start = [target |-> buckets[TargetBucket], source |-> buckets[SourceBucket],
                earlier |-> << >>]
    /\ script = ScriptOf(cmd)
    /\ endpoint = DefaultEndpoint
    /\ endpoint_url = EndpointUrl(script, endpoint)
    /\ iam = NoIam
    /\ policy_file = "none"

Init == (InitCopy \/ InitDelete \/ InitSync) /\ InitRun

----------------------------------------------------------------------------
(* copy_object *)

\* Mutant: the outcome of the put alone decides, whatever the get did
CopyOutcome_ignore_get(g, p) == p

\* the outcome of copy_object's try block: the put is reached only when the
\* get (and the read of its body) returned
CopyOutcome(g, p) == IF g = "ok" THEN p ELSE g

\* the calls copy_object issues
CopyCalls(key, g, p) ==
    IF g = "ok"
    THEN << KeyCall("get_object", SourceBucket, key, g),
            KeyCall("put_object", TargetBucket, key, p) >>
    ELSE << KeyCall("get_object", SourceBucket, key, g) >>

\* Mutant: the content type of the source object is not carried over
CopiedObject_default_ctype(obj) ==
    [size |-> obj.size, ctype |-> "application/octet-stream"]

\* what copy_object reads from the get_object response and writes:
\* body = response['Body'].read(),
\* content_type = response.get('ContentType', 'application/octet-stream')
CopiedObject(obj) == [size |-> obj.size, ctype |-> obj.ctype]

\* Mutant: a put on a key the target already holds writes a new key beside it
PutObject_versioned(bkts, key, obj) ==
    LET new == IF key \in DOMAIN bkts[TargetBucket].objs THEN key + 100 ELSE key IN
    [bkts EXCEPT ![TargetBucket].objs =
        [k \in (DOMAIN @) \cup {new} |-> IF k = new THEN obj ELSE @[k]]]

\* the target bucket after put_object(Key=key, Body=body, ContentType=content_type)
PutObject(bkts, key, obj) ==
    [bkts EXCEPT ![TargetBucket].objs =
        [k \in (DOMAIN @) \cup {key} |-> IF k = key THEN obj ELSE @[k]]]

\* Mutant: a put that fails leaves a partial object under the key
CopyStores_partial(key, g, p) ==
    IF g = "ok"
    THEN PutObject(buckets, key,
                   IF p = "ok" THEN CopiedObject(buckets[SourceBucket].objs[key])
                   ELSE StaleObject)
    ELSE buckets

\* the stores after copy_object(key) with get outcome g and put outcome p
CopyStores(key, g, p) ==
    IF CopyOutcome(g, p) = "ok"
    THEN PutObject(buckets, key, CopiedObject(buckets[SourceBucket].objs[key]))
    ELSE buckets

----------------------------------------------------------------------------
(* cmd_copy *)

\* return 0 if failed_count == 0 else 1
CopyExitCode(failed) == IF failed = 0 THEN 0 ELSE 1

\* if copy_object(...): success_count += 1
NextSuccess(copied, s) == IF copied THEN s + 1 ELSE s

\* Mutant: a failed copy is not counted
NextFailed_drop(copied, f) == f

\* else: failed_count += 1
NextFailed(copied, f) == IF copied THEN f ELSE f + 1

\* Mutant: the listing is walked from its end
NextKey_reversed(objs, i) == objs[Len(objs) - i]

\* for obj in objects: key = obj['Key'], the object after the i already done
NextKey(objs, i) == objs[i + 1]

\* for obj in objects: the loop is over
CopyLoopDone(i, n) == i >= n

\* Step 1: head_bucket on the source; ClientError returns 1
CopyHeadSource ==
    /\ cmd = "copy" /\ pc = "copy_head_source"
    /\ \E o \in HeadOutcomes(SourceBucket) :
          /\ calls' = Append(calls, Call("head_bucket", SourceBucket, o))
          /\ CASE o = "ok" -> pc' = "copy_head_target" /\ UNCHANGED <<rc, traceback>>
               [] o = "ClientError" -> Return(1)
               [] OTHER -> Uncaught
    /\ UNCHANGED <<cmd, args, buckets, objects, idx, success_count, failed_count, out>>
    /\ UNCHANGED syncVars
    /\ UNCHANGED start
    /\ UNCHANGED clientVars
    /\ UNCHANGED policyVars
    /\ UNCHANGED confirmed

\* Mutant: the target is created whether or not --create-target was given
TargetMissingPlan_always_create(create_target) == "create"

\* what Step 2 does when head_bucket on the target raised ClientError:
\* create the bucket under --create-target, else give up
TargetMissingPlan(create_target) == IF create_target THEN "create" ELSE "return"

\* Step 2: head_bucket on the target; on ClientError create it if
\* --create-target was given, else return 1
CopyHeadTarget ==
    /\ cmd = "copy" /\ pc = "copy_head_target"
    /\ \E o \in HeadOutcomes(TargetBucket) :
          CASE o = "ok" ->
                 /\ calls' = Append(calls, Call("head_bucket", TargetBucket, o))
                 /\ pc' = "copy_list"
                 /\ UNCHANGED <<buckets, rc, traceback>>
            [] o = "ClientError" ->
                 IF TargetMissingPlan(args.create_target) = "create"
                 THEN \E c \in CreateOutcomes(TargetBucket) :
                        /\ calls' = calls \o << Call("head_bucket", TargetBucket, o),
                                                Call("create_bucket", TargetBucket, c) >>
                        /\ IF c = "ok"
                           THEN /\ buckets' = [buckets EXCEPT ![TargetBucket].exists = TRUE]
                                /\ pc' = "copy_list"
                                /\ UNCHANGED <<rc, traceback>>
                           ELSE \* create_bucket is outside any try block
                                /\ Uncaught
                                /\ UNCHANGED buckets
                 ELSE /\ calls' = Append(calls, Call("head_bucket", TargetBucket, o))
                      /\ Return(1)
                      /\ UNCHANGED buckets
            [] OTHER ->
                 /\ calls' = Append(calls, Call("head_bucket", TargetBucket, o))
                 /\ Uncaught
                 /\ UNCHANGED buckets
    /\ UNCHANGED <<cmd, args, objects, idx, success_count, failed_count, out>>
    /\ UNCHANGED syncVars
    /\ UNCHANGED start
    /\ UNCHANGED clientVars
    /\ UNCHANGED policyVars
    /\ UNCHANGED confirmed

\* Step 3: list the source; no objects returns 0
CopyList ==
    /\ cmd = "copy" /\ pc = "copy_list"
    /\ \E run \in Paginations(SourceBucket) :
          /\ calls' = calls \o ListCalls(SourceBucket, run)
          /\ out' = out \o ListPrints(run)
          /\ IF run.outcome = "Other"
             THEN Uncaught /\ UNCHANGED objects
             ELSE /\ objects' = list_objects(SourceBucket, run)
                  /\ IF objects' = << >>
                     THEN Return(0)
                     ELSE pc' = "copy_confirm" /\ UNCHANGED <<rc, traceback>>
    /\ UNCHANGED <<cmd, args, buckets, idx, success_count, failed_count>>
    /\ UNCHANGED syncVars
    /\ UNCHANGED start
    /\ UNCHANGED clientVars
    /\ UNCHANGED policyVars
    /\ UNCHANGED confirmed

\* if not args.yes: Confirm.ask(...); a refusal returns 0
CopyConfirm ==
    /\ cmd = "copy" /\ pc = "copy_confirm"
    /\ \E answer \in (IF args.yes THEN {TRUE} ELSE BOOLEAN) :
          IF answer
          THEN pc' = "copy_loop" /\ confirmed' = TRUE /\ UNCHANGED <<rc, traceback, out>>
          ELSE /\ out' = Append(out, [kind |-> "cancelled"])
               /\ Return(0)
               /\ UNCHANGED confirmed
    /\ UNCHANGED <<cmd, args, buckets, objects, idx, success_count, failed_count,
                   calls>>
    /\ UNCHANGED syncVars
    /\ UNCHANGED start
    /\ UNCHANGED clientVars
    /\ UNCHANGED policyVars

\* Step 4, one iteration of `for obj in objects`: copy_object and the counters
CopyLoop ==
    /\ cmd = "copy" /\ pc = "copy_loop"
    /\ ~CopyLoopDone(idx, Len(objects))
    /\ LET key == NextKey(objects, idx) IN
       \E g \in GetOutcomes(SourceBucket, key), p \in ObjectOutcomes(TargetBucket) :
          /\ calls' = calls \o CopyCalls(key, g, p)
          /\ buckets' = CopyStores(key, g, p)
          /\ IF CopyOutcome(g, p) = "Other"
             THEN \* not a ClientError: copy_object does not catch it
                  /\ Uncaught
                  /\ UNCHANGED <<idx, success_count, failed_count>>
             ELSE /\ success_count' = NextSuccess(CopyOutcome(g, p) = "ok", success_count)
                  /\ failed_count' = NextFailed(CopyOutcome(g, p) = "ok", failed_count)
                  /\ idx' = idx + 1
                  /\ UNCHANGED <<pc, rc, traceback>>
    /\ UNCHANGED <<cmd, args, objects, out>>
    /\ UNCHANGED syncVars
    /\ UNCHANGED start
    /\ UNCHANGED clientVars
    /\ UNCHANGED policyVars
    /\ UNCHANGED confirmed

\* Summary panel and exit status
CopySummary ==
    /\ cmd = "copy" /\ pc = "copy_loop"
    /\ CopyLoopDone(idx, Len(objects))
    /\ out' = Append(out, [kind |-> "copy_summary",
                           copied |-> success_count, failed |-> failed_count])
    /\ Return(CopyExitCode(failed_count))
    /\ UNCHANGED <<cmd, args, buckets, objects, idx, success_count, failed_count, calls>>
    /\ UNCHANGED syncVars
    /\ UNCHANGED start
    /\ UNCHANGED clientVars
    /\ UNCHANGED policyVars
    /\ UNCHANGED confirmed

CopyNext ==
    \/ CopyHeadSource
    \/ CopyHeadTarget
    \/ CopyList
    \/ CopyConfirm
    \/ CopyLoop
    \/ CopySummary

----------------------------------------------------------------------------
(* cmd_delete *)

\* Mutant: the slice is one key shorter than the step of the range
BatchEnd_short(i, n) == Min(i + BatchSize - 1, n)

\* batch = objects[i:i+1000]: the slice ends at i + 1000 or at the end of the list
BatchEnd(i, n) == Min(i + BatchSize, n)

\* Mutant: the loop is left after the first batch
RangeDone_early(i, n) == i >= Min(n, BatchSize)

\* range(0, len(objects), 1000) is exhausted
RangeDone(i, n) == i >= n

\* Mutant: the first key of every batch is left out of the request
DeleteKeys_skip_first(bkts, b, lo, hi) ==
    LET gone == {objects[j] : j \in (lo + 2) .. hi} IN
    [bkts EXCEPT ![b].objs = [k \in (DOMAIN @) \ gone |-> @[k]]]

\* the store after delete_objects removed the keys objects[lo+1 .. hi]
DeleteKeys(bkts, b, lo, hi) ==
    LET gone == {objects[j] : j \in (lo + 1) .. hi} IN
    [bkts EXCEPT ![b].objs = [k \in (DOMAIN @) \ gone |-> @[k]]]

\* Step 1: head_bucket; ClientError returns 1
DeleteHead ==
    /\ cmd = "delete" /\ pc = "delete_head"
    /\ \E o \in HeadOutcomes(SourceBucket) :
          /\ calls' = Append(calls, Call("head_bucket", SourceBucket, o))
          /\ CASE o = "ok" -> pc' = "delete_list" /\ UNCHANGED <<rc, traceback>>
               [] o = "ClientError" -> Return(1)
               [] OTHER -> Uncaught
    /\ UNCHANGED <<cmd, args, buckets, objects, idx, success_count, failed_count, out>>
    /\ UNCHANGED syncVars
    /\ UNCHANGED start
    /\ UNCHANGED clientVars
    /\ UNCHANGED policyVars
    /\ UNCHANGED confirmed

\* Step 2: list the bucket
DeleteList ==
    /\ cmd = "delete" /\ pc = "delete_list"
    /\ \E run \in Paginations(SourceBucket) :
          /\ calls' = calls \o ListCalls(SourceBucket, run)
          /\ out' = out \o ListPrints(run)
          /\ IF run.outcome = "Other"
             THEN Uncaught /\ UNCHANGED objects
             ELSE /\ objects' = list_objects(SourceBucket, run)
                  /\ pc' = "delete_confirm"
                  /\ UNCHANGED <<rc, traceback>>
    /\ UNCHANGED <<cmd, args, buckets, idx, success_count, failed_count>>
    /\ UNCHANGED syncVars
    /\ UNCHANGED start
    /\ UNCHANGED clientVars
    /\ UNCHANGED policyVars
    /\ UNCHANGED confirmed

\* if not args.yes: Confirm.ask(..., default=False); a refusal returns 0
DeleteConfirm ==
    /\ cmd = "delete" /\ pc = "delete_confirm"
    /\ \E answer \in (IF args.yes THEN {TRUE} ELSE BOOLEAN) :
          IF answer
          THEN pc' = "delete_objects" /\ confirmed' = TRUE /\ UNCHANGED <<rc, traceback, out>>
          ELSE /\ out' = Append(out, [kind |-> "cancelled"])
               /\ Return(0)
               /\ UNCHANGED confirmed
    /\ UNCHANGED <<cmd, args, buckets, objects, idx, success_count, failed_count,
                   calls>>
    /\ UNCHANGED syncVars
    /\ UNCHANGED start
    /\ UNCHANGED clientVars
    /\ UNCHANGED policyVars

\* Step 3, one iteration of the batch loop: delete_objects on the next slice;
\* a ClientError is printed and the loop goes on
DeleteBatch ==
    /\ cmd = "delete" /\ pc = "delete_objects"
    /\ ~RangeDone(idx, Len(objects))
    /\ LET hi == BatchEnd(idx, Len(objects)) IN
       \E o \in ObjectOutcomes(SourceBucket) :
          /\ calls' = Append(calls, BatchCall(SourceBucket, idx, hi, o))
          /\ CASE o = "ok" ->
                    /\ buckets' = DeleteKeys(buckets, SourceBucket, idx, hi)
                    /\ idx' = idx + BatchSize
                    /\ UNCHANGED <<out, pc, rc, traceback>>
               [] o = "ClientError" ->
                    /\ out' = Append(out, [kind |-> "delete_error", lo |-> idx, hi |-> hi])
                    /\ idx' = idx + BatchSize
                    /\ UNCHANGED <<buckets, pc, rc, traceback>>
               [] OTHER ->
                    /\ Uncaught
                    /\ UNCHANGED <<buckets, idx, out>>
    /\ UNCHANGED <<cmd, args, objects, success_count, failed_count>>
    /\ UNCHANGED syncVars
    /\ UNCHANGED start
    /\ UNCHANGED clientVars
    /\ UNCHANGED policyVars
    /\ UNCHANGED confirmed

\* what the run prints once the batch loop is over: "Deleted {len(objects)}
\* objects" when there were objects
DeletedReport(objs) ==
    IF objs # << >> THEN << [kind |-> "deleted_objects", n |-> Len(objs)] >> ELSE << >>

\* Mutant: a refused delete_bucket returns 0 all the same
DeleteBucketExit_zero(o) == 0

\* delete_bucket: except ClientError: return 1; else the final panel, return 0
DeleteBucketExit(o) == IF o = "ok" THEN 0 ELSE 1

\* Step 4: delete_bucket; ClientError returns 1, else the final panel and 0
DeleteBucket ==
    /\ cmd = "delete" /\ pc = "delete_objects"
    /\ RangeDone(idx, Len(objects))
    /\ \E o \in DeleteBucketOutcomes(SourceBucket) :
          /\ calls' = Append(calls, Call("delete_bucket", SourceBucket, o))
          /\ CASE o = "ok" ->
                    /\ buckets' = [buckets EXCEPT ![SourceBucket].exists = FALSE]
                    /\ out' = out \o DeletedReport(objects)
                                  \o << [kind |-> "delete_summary", removed |-> Len(objects)] >>
                    /\ Return(DeleteBucketExit(o))
               [] o = "ClientError" ->
                    /\ out' = out \o DeletedReport(objects)
                                  \o << [kind |-> "delete_bucket_error"] >>
                    /\ Return(DeleteBucketExit(o))
                    /\ UNCHANGED buckets
               [] OTHER ->
                    /\ out' = out \o DeletedReport(objects)
                    /\ Uncaught
                    /\ UNCHANGED buckets
    /\ UNCHANGED <<cmd, args, objects, idx, success_count, failed_count>>
    /\ UNCHANGED syncVars
    /\ UNCHANGED start
    /\ UNCHANGED clientVars
    /\ UNCHANGED policyVars
    /\ UNCHANGED confirmed

DeleteNext ==
    \/ DeleteHead
    \/ DeleteList
    \/ DeleteConfirm
    \/ DeleteBatch
    \/ DeleteBucket

----------------------------------------------------------------------------
(* sync-clients.py: resolution *)

\* Mutant: when no name contains the pattern the first asset is returned
find_matching_asset_default(assets, pattern) ==
    LET hits == {i \in 1 .. Len(assets) : Contains(assets[i].name, pattern)} IN
    IF hits = {} THEN 1 ELSE CHOOSE i \in hits : \A j \in hits : i <= j

\* find_matching_asset: the index of the first asset whose name contains the
\* pattern, 0 for None
find_matching_asset(assets, pattern) ==
    LET hits == {i \in 1 .. Len(assets) : Contains(assets[i].name, pattern)} IN
    IF hits = {} THEN 0 ELSE CHOOSE i \in hits : \A j \in hits : i <= j

\* Mutant: the extraction patterns take a URL on any host
FindAll_any_host(form, body) == SelectSeq(body, LAMBDA m : m.form = form)

\* re.findall of one extraction pattern: the mentions written in that form
\* whose URL is on the CDN host, in body order
FindAll(form, body) ==
    SelectSeq(body, LAMBDA m : m.form = form /\ m.url.host = CDN_HOST)

\* Mutant: every capture is kept, also of a URL captured before
FoundUrls_all(matches, found) ==
    found \o [i \in 1 .. Len(matches) |-> [label |-> matches[i].label, url |-> matches[i].url]]

\* found_urls: the first label captured for every URL, in order of capture
RECURSIVE FoundUrls(_, _)
FoundUrls(matches, found) ==
    IF matches = << >> THEN found
    ELSE LET m == Head(matches) IN
         IF \E i \in 1 .. Len(found) : found[i].url = m.url
         THEN FoundUrls(Tail(matches), found)
         ELSE FoundUrls(Tail(matches), Append(found, [label |-> m.label, url |-> m.url]))

\* re.search(pattern, platform_text, re.IGNORECASE) for a pattern A or A.*B
Search(pattern, label) ==
    IF Len(pattern) = 1
    THEN \E i \in 1 .. Len(label) : Lower(label[i]) = pattern[1]
    ELSE \E i \in 1 .. Len(label) : \E j \in (i + 1) .. Len(label) :
            Lower(label[i]) = pattern[1] /\ Lower(label[j]) = pattern[2]

\* Mutant: the last matching entry of CRABNEBULA_MAPPINGS is taken
PlatformOf_last(label) ==
    LET hits == {k \in 1 .. Len(CRABNEBULA_MAPPINGS) :
                    Search(CRABNEBULA_MAPPINGS[k].pattern, label)} IN
    IF hits = {} THEN 0 ELSE CHOOSE k \in hits : \A j \in hits : k >= j

\* the first entry of CRABNEBULA_MAPPINGS matching the label, 0 when none does
PlatformOf(label) ==
    LET hits == {k \in 1 .. Len(CRABNEBULA_MAPPINGS) :
                    Search(CRABNEBULA_MAPPINGS[k].pattern, label)} IN
    IF hits = {} THEN 0 ELSE CHOOSE k \in hits : \A j \in hits : k <= j

RECURSIVE MapDownloads(_)
MapDownloads(found) ==
    IF found = << >> THEN << >>
    ELSE LET f == Head(found)
             k == PlatformOf(f.label) IN
         IF k = 0 THEN MapDownloads(Tail(found))
         ELSE << [platform_text |-> f.label, url |-> f.url,
                  target_name |-> CRABNEBULA_MAPPINGS[k].target_name,
                  content_type |-> CRABNEBULA_MAPPINGS[k].content_type] >>
              \o MapDownloads(Tail(found))

\* for pattern in patterns: ... found_urls after the three extraction patterns
Found(body) ==
    FoundUrls(FindAll("link", body) \o FindAll("bold", body) \o FindAll("bullet", body),
              << >>)

\* parse_crabnebula_downloads(release_body)
parse_crabnebula_downloads(body) == MapDownloads(Found(body))

\* the "Unknown platform" warnings parse_crabnebula_downloads prints
RECURSIVE UnknownPlatforms(_)
UnknownPlatforms(found) ==
    IF found = << >> THEN << >>
    ELSE (IF PlatformOf(Head(found).label) = 0
          THEN << [kind |-> "unknown_platform", label |-> Head(found).label] >>
          ELSE << >>) \o UnknownPlatforms(Tail(found))

\* Mutant: a tag that is not upstream falls back to any release
Lookup_fallback(version) ==
    IF \E r \in Releases : r.tag_name = version
    THEN {r \in Releases : r.tag_name = version}
    ELSE Releases

\* the release an "ok" lookup returns: the tagged one, or any as the latest
Lookup(version) ==
    IF version # "" THEN {r \in Releases : r.tag_name = version} ELSE Releases

\* Mutant: the body is parsed whatever the release carries
ParsedDownloads_always(r) == parse_crabnebula_downloads(r.body)

\* crabnebula_downloads = []; if github_assets: ... else: parse the body
ParsedDownloads(r) ==
    IF r.assets # << >> THEN << >> ELSE parse_crabnebula_downloads(r.body)

\* the warnings of the parse, printed only when the body is parsed
ParseWarnings(r) ==
    IF r.assets # << >> THEN << >> ELSE UnknownPlatforms(Found(r.body))

----------------------------------------------------------------------------
(* sync-clients.py: main *)

Result(filename, status, color) ==
    [filename |-> filename, status |-> status, color |-> color]

\* success_count = sum(1 for _, status, color in results if color == "green")
SyncSuccessCount(res) == Cardinality({i \in 1 .. Len(res) : res[i].color = "green"})

\* total_count = len(results) if results else len(GITHUB_ASSET_MAPPINGS)
SyncTotalCount(res) == IF res # << >> THEN Len(res) ELSE Len(GITHUB_ASSET_MAPPINGS)

\* Mutant: a run without results ends with exit status 1
SyncExitCode_empty_fails(res) == IF res = << >> THEN 1 ELSE 0

\* main() returns None whatever the results hold: exit status 0
SyncExitCode(res) == 0

\* Mutant: the loop is left one item early
SyncLoopDone_early(i, n) == i >= n - 1

\* the for loop of Step 3 is over
SyncLoopDone(i, n) == i >= n

\* Mutant: the directory is left where it is
Rmtree_skip(dir) == dir

\* finally: shutil.rmtree(temp_dir, ignore_errors=True)
Rmtree(dir) == "removed"

\* version_info = f"{release_tag}\n"
VersionInfo(tag) == <<tag, "\n">>

\* Mutant: only a ClientError of the version.txt write is passed over
AfterVersionWrite_narrow(o) == IF o = "Other" THEN "raise" ELSE "continue"

\* try: put_object(version.txt) ... except Exception: pass
AfterVersionWrite(o) == "continue"

\* the items the loop of Step 3 goes through
SyncItems ==
    IF release.assets # << >> THEN Len(GITHUB_ASSET_MAPPINGS)
    ELSE Len(crabnebula_downloads)

\* Step 1: fetch the release; then pick the download source
SyncFetch ==
    /\ cmd = "sync" /\ pc = "sync_fetch"
    /\ \E o \in {"ok", "404", "HTTPError", "Other"} :
          /\ calls' = Append(calls, [op |-> "get_release", version |-> args.version,
                                     outcome |-> o])
          /\ IF o = "ok"
             THEN \E r \in Lookup(args.version) :
                     /\ release' = r
                     /\ crabnebula_downloads' = ParsedDownloads(r)
                     /\ out' = out \o ParseWarnings(r)
                     /\ pc' = "sync_connect"
                     /\ UNCHANGED <<rc, traceback>>
             ELSE \* every exception of the lookup ends in sys.exit(1)
                  /\ Return(1)
                  /\ UNCHANGED <<release, crabnebula_downloads, out>>
    /\ UNCHANGED <<cmd, args, idx, clients, temp_dir, temp_files, results>>
    /\ UNCHANGED bucketVars
    /\ UNCHANGED start
    /\ UNCHANGED clientVars
    /\ UNCHANGED policyVars
    /\ UNCHANGED confirmed

\* Step 2: head_bucket on BUCKET_NAME, any exception is sys.exit(1); then mkdtemp
SyncConnect ==
    /\ cmd = "sync" /\ pc = "sync_connect"
    /\ \E o \in (IF clients.exists THEN Outcomes ELSE Outcomes \ {"ok"}) :
          /\ calls' = Append(calls, Call("head_bucket", BUCKET_NAME, o))
          /\ IF o = "ok"
             THEN /\ temp_dir' = "created"
                  /\ pc' = "sync_loop"
                  /\ UNCHANGED <<rc, traceback>>
             ELSE /\ Return(1)
                  /\ UNCHANGED temp_dir
    /\ UNCHANGED <<cmd, args, idx, out, release, crabnebula_downloads, clients,
                   temp_files, results>>
    /\ UNCHANGED bucketVars
    /\ UNCHANGED start
    /\ UNCHANGED clientVars
    /\ UNCHANGED policyVars
    /\ UNCHANGED confirmed

\* the files of temp_dir after download_file(url, local_file): written whole,
\* not opened at all, or left part-written by an exception while streaming
Downloaded(files, name, url, d) ==
    CASE d = "ok" -> [n \in (DOMAIN files) \cup {name} |->
                         IF n = name THEN [url |-> url, whole |-> TRUE] ELSE files[n]]
      [] d = "partial" -> [n \in (DOMAIN files) \cup {name} |->
                         IF n = name THEN [url |-> url, whole |-> FALSE] ELSE files[n]]
      [] OTHER -> files

\* local_file.unlink(missing_ok=True)
Unlink(files, name) == [n \in (DOMAIN files) \ {name} |-> files[n]]

\* the bucket after upload_file(local_path, BUCKET_NAME, s3_key, ContentType)
Uploaded(bkt, key, body, content_type) ==
    [bkt EXCEPT !.objs = [k \in (DOMAIN @) \cup {key} |->
                             IF k = key THEN [body |-> body, ctype |-> content_type]
                             ELSE @[k]]]

\* Mutant: a download that broke off part-way counts as done
download_file_lenient(d) == d # "failed"

\* download_file returns True when the body was written whole, False on any
\* exception
download_file(d) == d = "ok"

\* download one resolved asset, upload it, remove the temp file
Transfer(url, target_name, content_type) ==
    \E d \in {"ok", "failed", "partial"} :
       LET got == Downloaded(temp_files, target_name, url, d)
           dl  == [op |-> "download", url |-> url, dest |-> target_name, outcome |-> d]
       IN
       IF ~download_file(d)
       THEN \* download_file returned False: recorded, continue
            /\ calls' = Append(calls, dl)
            /\ temp_files' = got
            /\ results' = Append(results, Result(target_name, "Download failed", "red"))
            /\ idx' = idx + 1
            /\ UNCHANGED <<clients, temp_dir, pc, rc, traceback>>
       ELSE \E u \in (IF clients.exists THEN Outcomes ELSE Outcomes \ {"ok"}) :
            /\ calls' = calls \o << dl, KeyCall("upload_file", BUCKET_NAME, target_name, u) >>
            /\ CASE u = "ok" ->
                      /\ clients' = Uploaded(clients, target_name, got[target_name], content_type)
                      /\ results' = Append(results, Result(target_name, "uploaded", "green"))
                      /\ temp_files' = Unlink(got, target_name)
                      /\ idx' = idx + 1
                      /\ UNCHANGED <<temp_dir, pc, rc, traceback>>
                 [] u = "ClientError" ->
                      /\ results' = Append(results, Result(target_name, "Upload failed", "red"))
                      /\ temp_files' = Unlink(got, target_name)
                      /\ idx' = idx + 1
                      /\ UNCHANGED <<clients, temp_dir, pc, rc, traceback>>
                 [] OTHER ->
                      \* upload_to_s3 catches ClientError only: the exception leaves
                      \* the loop through the finally clause (rmtree)
                      /\ temp_dir' = Rmtree(temp_dir)
                      /\ temp_files' = (IF temp_dir' = "removed" THEN NoFiles
                                        ELSE got)
                      /\ Uncaught
                      /\ UNCHANGED <<clients, results, idx>>

\* Step 3, one iteration of the loop over GITHUB_ASSET_MAPPINGS (Method 1) or
\* over crabnebula_downloads (Method 2)
SyncAsset ==
    /\ cmd = "sync" /\ pc = "sync_loop"
    /\ ~SyncLoopDone(idx, SyncItems)
    /\ IF release.assets # << >>
       THEN LET m == GITHUB_ASSET_MAPPINGS[idx + 1]
                a == find_matching_asset(release.assets, m.pattern) IN
            IF a = 0
            THEN /\ results' = Append(results, Result(m.target_name, "Not found", "yellow"))
                 /\ idx' = idx + 1
                 /\ UNCHANGED <<calls, clients, temp_dir, temp_files, pc, rc, traceback>>
            ELSE Transfer(release.assets[a].browser_download_url, m.target_name,
                          m.content_type)
       ELSE LET d == crabnebula_downloads[idx + 1] IN
            Transfer(d.url, d.target_name, d.content_type)
    /\ UNCHANGED <<cmd, args, out, release, crabnebula_downloads>>
    /\ UNCHANGED bucketVars
    /\ UNCHANGED start
    /\ UNCHANGED clientVars
    /\ UNCHANGED policyVars
    /\ UNCHANGED confirmed

\* after the loop: rmtree(temp_dir), the summary table, the version.txt write
\* (any exception is swallowed), the final panel
SyncFinish ==
    /\ cmd = "sync" /\ pc = "sync_loop"
    /\ SyncLoopDone(idx, SyncItems)
    /\ temp_dir' = Rmtree(temp_dir)
    /\ temp_files' = (IF temp_dir' = "removed" THEN NoFiles ELSE temp_files)
    /\ \E o \in (IF clients.exists THEN Outcomes ELSE Outcomes \ {"ok"}) :
          /\ calls' = Append(calls, KeyCall("put_object", BUCKET_NAME, "version.txt", o))
          /\ clients' = IF o = "ok"
                        THEN Uploaded(clients, "version.txt", VersionInfo(release.tag_name),
                                      "text/plain")
                        ELSE clients
          /\ IF AfterVersionWrite(o) = "continue"
             THEN /\ out' = out \o << [kind |-> "sync_table", results |-> results],
                                      [kind |-> "sync_summary",
                                       uploaded |-> SyncSuccessCount(results),
                                       total |-> SyncTotalCount(results)] >>
                  /\ Return(SyncExitCode(results))
             ELSE /\ out' = Append(out, [kind |-> "sync_table", results |-> results])
                  /\ Uncaught
    /\ UNCHANGED <<cmd, args, idx, release, crabnebula_downloads, results>>
    /\ UNCHANGED bucketVars
    /\ UNCHANGED start
    /\ UNCHANGED clientVars
    /\ UNCHANGED policyVars
    /\ UNCHANGED confirmed

SyncNext ==
    \/ SyncFetch
    \/ SyncConnect
    \/ SyncAsset
    \/ SyncFinish

----------------------------------------------------------------------------
(* Running the copy again *)

\* the user runs the same copy command again, on the stores as the last run
\* left them; the new process starts from scratch
CopyRerun ==
    /\ cmd = "copy" /\ pc = "done"
    /\ Len(start.earlier) < MaxReruns
    /\ start' = [target |-> buckets[TargetBucket],
                 source |-> buckets[SourceBucket],
                 earlier |-> Append(start.earlier,
                                    [summarised |-> \E i \in 1 .. Len(out) :
                                                       out[i].kind = "copy_summary",
                                     failed |-> failed_count,
                                     clean |-> \A i \in 1 .. Len(calls) :
                                                  calls[i].outcome = "ok"])]
    /\ pc' = "copy_head_source"
    /\ objects' = << >>
    /\ idx' = 0
    /\ success_count' = 0
    /\ failed_count' = 0
    /\ calls' = << >>
    /\ out' = << >>
    /\ rc' = 0
    /\ traceback' = FALSE
    /\ confirmed' = FALSE
    /\ UNCHANGED <<cmd, args, buckets>>
    /\ UNCHANGED syncVars
    /\ UNCHANGED clientVars
    /\ UNCHANGED policyVars

----------------------------------------------------------------------------

Next == CopyNext \/ DeleteNext \/ SyncNext

\* list_objects on its own: one call on a bucket
ListObjects ==
    /\ cmd = "list_objects" /\ pc = "list_objects"
    /\ \E run \in Paginations(SourceBucket) :
          /\ calls' = calls \o ListCalls(SourceBucket, run)
          /\ out' = out \o ListPrints(run)
          /\ IF run.outcome = "Other"
             THEN Uncaught /\ UNCHANGED objects
             ELSE /\ objects' = list_objects(SourceBucket, run)
                  /\ pc' = "done"
                  /\ UNCHANGED <<rc, traceback>>
    /\ UNCHANGED <<cmd, args, buckets, idx, success_count, failed_count>>
    /\ UNCHANGED syncVars
    /\ UNCHANGED start
    /\ UNCHANGED clientVars
    /\ UNCHANGED policyVars
    /\ UNCHANGED confirmed

InitListing == InitList /\ InitRun

NextList == ListObjects

SpecList == InitListing /\ [][NextList]_vars

\* get_s3_client on its own: any script, any address
InitFactory ==
    /\ cmd = "get_s3_client"
    /\ pc = "get_s3_client"
    /\ args = [yes |-> FALSE, create_target |-> FALSE, version |-> ""]
    /\ buckets = [b \in BucketNames |-> NoBucket]
    /\ clients = NoBucket
    /\ objects = << >> /\ idx = 0 /\ success_count = 0 /\ failed_count = 0
    /\ calls = << >> /\ out = << >> /\ rc = 0 /\ traceback = FALSE
    /\ confirmed = FALSE
    /\ release = NoRelease /\ crabnebula_downloads = << >>
    /\ temp_dir = "none" /\ temp_files = NoFiles /\ results = << >>
    /\ start = [target |-> NoBucket, source |-> NoBucket, earlier |-> << >>]
    /\ script \in Scripts
    /\ endpoint \in Endpoints
    /\ endpoint_url = << >>
    /\ iam = NoIam
    /\ policy_file = "none"

\* get_s3_client: the endpoint_url is built from the address
GetS3Client ==
    /\ cmd = "get_s3_client" /\ pc = "get_s3_client"
    /\ endpoint_url' = EndpointUrl(script, endpoint)
    /\ pc' = "done"
    /\ UNCHANGED <<cmd, args, idx, calls, out, rc, traceback, confirmed, start,
                   script, endpoint>>
    /\ UNCHANGED bucketVars
    /\ UNCHANGED syncVars
    /\ UNCHANGED policyVars

NextClient == GetS3Client

SpecClient == InitFactory /\ [][NextClient]_vars

----------------------------------------------------------------------------
(* cmd_policy *)

InitPolicy ==
    /\ cmd = "policy"
    /\ pc = "policy_check_user"
    /\ args = [yes |-> FALSE, create_target |-> FALSE, version |-> ""]
    /\ buckets = [b \in BucketNames |-> NoBucket]
    /\ clients = NoBucket
    /\ objects = << >> /\ idx = 0 /\ success_count = 0 /\ failed_count = 0
    /\ calls = << >> /\ out = << >> /\ rc = 0 /\ traceback = FALSE
    /\ confirmed = FALSE
    /\ release = NoRelease /\ crabnebula_downloads = << >>
    /\ temp_dir = "none" /\ temp_files = NoFiles /\ results = << >>
    /\ script = "bucket-manager.py"
    /\ endpoint = DefaultEndpoint
    /\ endpoint_url = EndpointUrl(script, endpoint)
    /\ iam \in IamStates
    /\ policy_file = "none"
    /\ start = [target |-> NoBucket, source |-> NoBucket, earlier |-> << >>,
                iam |-> iam]

\* what no step of cmd_policy changes
PolicyFrame ==
    /\ UNCHANGED <<cmd, args, idx, confirmed, start>>
    /\ UNCHANGED bucketVars
    /\ UNCHANGED syncVars
    /\ UNCHANGED clientVars

\* Step 1 and Step 2: the policy file is written; mc admin user info; a
\* failure returns 1 through the finally clause
PolicyCheckUser ==
    /\ cmd = "policy" /\ pc = "policy_check_user"
    /\ \E o \in run_mc_command(iam.user) :
          /\ calls' = Append(calls, McCall("user_info", o))
          /\ IF o.success
             THEN /\ policy_file' = "written"
                  /\ pc' = "policy_detach"
                  /\ UNCHANGED <<out, rc, traceback>>
             ELSE /\ out' = Append(out, [kind |-> "user_not_found"])
                  /\ policy_file' = UnlinkPolicyFile("written")
                  /\ Return(1)
    /\ UNCHANGED iam
    /\ PolicyFrame

\* Step 3: mc admin policy detach; the result is ignored
PolicyDetach ==
    /\ cmd = "policy" /\ pc = "policy_detach"
    /\ \E o \in run_mc_command(iam.user /\ POLICY_NAME \in iam.attached) :
          /\ calls' = Append(calls, McCall("detach", o))
          /\ iam' = IF o.applied
                    THEN [iam EXCEPT !.attached = @ \ {POLICY_NAME}]
                    ELSE iam
    /\ pc' = "policy_remove"
    /\ UNCHANGED <<out, rc, traceback, policy_file>>
    /\ PolicyFrame

\* Step 3: mc admin policy remove; the result is ignored. The server refuses
\* to remove a policy that is attached.
PolicyRemove ==
    /\ cmd = "policy" /\ pc = "policy_remove"
    /\ \E o \in run_mc_command(iam.policy # "none" /\ POLICY_NAME \notin iam.attached) :
          /\ calls' = Append(calls, McCall("remove", o))
          /\ iam' = IF o.applied THEN [iam EXCEPT !.policy = "none"] ELSE iam
    /\ pc' = "policy_create"
    /\ UNCHANGED <<out, rc, traceback, policy_file>>
    /\ PolicyFrame

\* Step 3: mc admin policy create from the policy file; a failure returns 1
PolicyCreate ==
    /\ cmd = "policy" /\ pc = "policy_create"
    /\ \E o \in run_mc_command(TRUE) :
          /\ calls' = Append(calls, McCall("create", o))
          /\ LET created == IF o.applied THEN [iam EXCEPT !.policy = "new"] ELSE iam IN
             IF o.success
             THEN /\ iam' = created
                  /\ pc' = "policy_attach"
                  /\ UNCHANGED <<out, rc, traceback, policy_file>>
             ELSE /\ iam' = created
                  /\ out' = Append(out, [kind |-> "create_policy_error"])
                  /\ policy_file' = UnlinkPolicyFile(policy_file)
                  /\ Return(1)
    /\ PolicyFrame

\* Step 4: mc admin policy attach; a failure returns 1. The server refuses
\* to attach a policy the user holds already.
PolicyAttach ==
    /\ cmd = "policy" /\ pc = "policy_attach"
    /\ \E o \in run_mc_command(/\ iam.user /\ iam.policy # "none"
                                /\ POLICY_NAME \notin iam.attached) :
          /\ calls' = Append(calls, McCall("attach", o))
          /\ iam' = IF o.applied
                    THEN [iam EXCEPT !.attached = @ \cup {POLICY_NAME}]
                    ELSE iam
          /\ IF o.success
             THEN /\ pc' = "policy_verify"
                  /\ UNCHANGED <<out, rc, traceback, policy_file>>
             ELSE /\ out' = Append(out, [kind |-> "attach_policy_error"])
                  /\ policy_file' = UnlinkPolicyFile(policy_file)
                  /\ Return(1)
    /\ PolicyFrame

\* Step 5: mc admin user info once more, its failure changes nothing; the
\* policy file is removed, the summary panel, return 0
PolicyVerify ==
    /\ cmd = "policy" /\ pc = "policy_verify"
    /\ \E o \in run_mc_command(iam.user) :
          /\ calls' = Append(calls, McCall("user_info", o))
          /\ out' = (IF o.success THEN Append(out, [kind |-> "verified"]) ELSE out)
                        \o << [kind |-> "policy_summary"] >>
    /\ policy_file' = UnlinkPolicyFile(policy_file)
    /\ Return(0)
    /\ UNCHANGED iam
    /\ PolicyFrame

NextPolicy ==
    \/ PolicyCheckUser
    \/ PolicyDetach
    \/ PolicyRemove
    \/ PolicyCreate
    \/ PolicyAttach
    \/ PolicyVerify

SpecPolicy == InitPolicy /\ [][NextPolicy]_vars

\* copy runs, one after the other
InitRerun == InitCopy /\ InitRun

NextRerun == CopyNext \/ CopyRerun

SpecRerun == InitRerun /\ [][NextRerun]_vars

Spec == Init /\ [][Next]_vars

----------------------------------------------------------------------------
(* Reading the call log *)

CallsOf(op) == SelectSeq(calls, LAMBDA c : c.op = op)

NumCalls(op) == Len(CallsOf(op))

NumCallsWith(op, outcome) ==
    Len(SelectSeq(calls, LAMBDA c : c.op = op /\ c.outcome = outcome))

Issued(op) == \E i \in 1 .. Len(calls) : calls[i].op = op

NoCallFailed == \A i \in 1 .. Len(calls) : calls[i].outcome = "ok"

Printed(kind) == \E i \in 1 .. Len(out) : out[i].kind = kind

\* the object calls of a copy run
IsObjectCall(c) == c.op \in {"get_object", "put_object"}

\* the key was attempted: copy_object issued its get_object
Attempted(key) ==
    \E i \in 1 .. Len(calls) : calls[i].op = "get_object" /\ calls[i].key = key

\* the attempts that failed: a get that did not return, or a put that did not
FailedAttempts ==
    {i \in 1 .. Len(calls) : IsObjectCall(calls[i]) /\ calls[i].outcome # "ok"}

----------------------------------------------------------------------------
(* C1 *)

\* C1 (as claimed): once a copy run that started copying has ended, every
\* listed object was attempted and every failed fetch or write was recorded as
\* a failed outcome, whatever the failures were.
C1_EveryListedObjectAttempted ==
    (cmd = "copy" /\ pc = "done" /\ confirmed) =>
        /\ \A k \in 1 .. Len(objects) : Attempted(objects[k])
        /\ failed_count = Cardinality(FailedAttempts)

----------------------------------------------------------------------------
(* C2 *)

\* the target bucket did not exist when the run started: it still does not, or
\* the run created it
TargetMissingAtStart ==
    \/ ~buckets[TargetBucket].exists
    \/ \E i \in 1 .. Len(calls) :
          calls[i].op = "create_bucket" /\ calls[i].outcome = "ok"

\* call j established that the target bucket exists
Establishes(j) ==
    /\ calls[j].bucket = TargetBucket
    /\ calls[j].outcome = "ok"
    /\ \/ calls[j].op = "head_bucket"
       \/ calls[j].op = "create_bucket" /\ args.create_target

\* C2: in a copy run every object get/put (and the listing of the source) comes
\* after a call that established the target bucket (head_bucket returned, or
\* create_bucket returned under --create-target); a run whose target bucket is
\* missing and that has no --create-target ends non-zero with no object
\* operation and no bucket creation.
C2_TargetResolvedBeforeCopy ==
    cmd = "copy" =>
        /\ \A i \in 1 .. Len(calls) :
              (IsObjectCall(calls[i]) \/ calls[i].op = "list_objects_v2") =>
                  /\ \E j \in 1 .. (i - 1) : Establishes(j)
                  /\ buckets[TargetBucket].exists
        /\ (pc = "done" /\ TargetMissingAtStart /\ ~args.create_target) =>
              /\ rc # 0
              /\ ~Issued("get_object") /\ ~Issued("put_object")
              /\ ~Issued("list_objects_v2")
              /\ ~Issued("create_bucket")
              /\ ~buckets[TargetBucket].exists
              /\ Keys(TargetBucket) = {}

\* a run that found the target missing, had no --create-target, and returned
C2_Witness ==
    /\ cmd = "copy" /\ pc = "done" /\ ~args.create_target
    /\ ~buckets[TargetBucket].exists
    /\ rc = 1 /\ ~traceback
    /\ \E i \in 1 .. Len(calls) :
          /\ calls[i].op = "head_bucket" /\ calls[i].bucket = TargetBucket
          /\ calls[i].outcome = "ClientError"

----------------------------------------------------------------------------
(* C3 *)

\* the delete_objects calls before position i of the log
BatchesBefore(i) ==
    Cardinality({j \in 1 .. (i - 1) : calls[j].op = "delete_objects"})

\* C3: in a delete run the delete_bucket call comes after all
\* ceil(N / 1000) delete_objects calls of the run have returned, and no
\* delete_objects call comes after it.
C3_BucketDeleteAfterBatches ==
    cmd = "delete" =>
        \A i \in 1 .. Len(calls) :
            calls[i].op = "delete_bucket" =>
                /\ BatchesBefore(i) = CeilDiv(Len(objects), BatchSize)
                /\ \A j \in (i + 1) .. Len(calls) : calls[j].op # "delete_objects"

\* a run of two batches or more that went on to delete_bucket
C3_Witness ==
    /\ cmd = "delete"
    /\ NumCalls("delete_objects") >= 2
    /\ Issued("delete_bucket")

----------------------------------------------------------------------------
(* C4 *)

\* C4 (as claimed): a delete run in which a delete_objects batch failed does not
\* attempt delete_bucket.
C4_NoBucketDeleteAfterFailedBatch ==
    cmd = "delete" =>
        ~(/\ \E i \in 1 .. Len(calls) :
                calls[i].op = "delete_objects" /\ calls[i].outcome # "ok"
          /\ Issued("delete_bucket"))

----------------------------------------------------------------------------
(* C5 *)

Batches == CallsOf("delete_objects")

\* C5: the delete_objects calls of a delete run are the consecutive slices
\* [0,1000), [1000,2000), ... of the listing, each of 1 to 1000 keys; once the
\* run is at the bucket deletion there are exactly ceil(N / 1000) of them and
\* they cover the N listed keys; N = 0 issues none.
C5_BatchesSliceTheListing ==
    cmd = "delete" =>
        LET n == Len(objects) IN
        /\ \A k \in 1 .. Len(Batches) :
              /\ Batches[k].lo = (k - 1) * BatchSize
              /\ Batches[k].hi = Min(k * BatchSize, n)
              /\ Batches[k].hi - Batches[k].lo >= 1
              /\ Batches[k].hi - Batches[k].lo <= BatchSize
              /\ k > 1 => Batches[k].lo = Batches[k - 1].hi
        /\ Len(Batches) <= CeilDiv(n, BatchSize)
        /\ Issued("delete_bucket") =>
              /\ Len(Batches) = CeilDiv(n, BatchSize)
              /\ n > 0 => Batches[Len(Batches)].hi = n
        /\ n = 0 => Batches = << >>

\* 2500 listed objects: batches of 1000, 1000 and 500, then delete_bucket
C5_Witness ==
    /\ cmd = "delete"
    /\ Len(objects) = 2 * BatchSize + BatchSize \div 2
    /\ Len(Batches) = 3
    /\ [k \in 1 .. 3 |-> Batches[k].hi - Batches[k].lo]
          = <<BatchSize, BatchSize, BatchSize \div 2>>
    /\ Issued("delete_bucket")

----------------------------------------------------------------------------
(* C6 *)

\* C6: in a confirmed delete run in which no remote call failed, the bucket
\* is empty when the run gets to the bucket deletion, and the run ends with
\* exit status 0, exactly one delete_bucket call, no object left and the
\* bucket gone.
C6_DeleteCompletes ==
    (cmd = "delete" /\ confirmed /\ NoCallFailed) =>
        /\ (pc = "delete_objects" /\ RangeDone(idx, Len(objects))) =>
              Keys(SourceBucket) = {}
        /\ pc = "done" =>
              /\ rc = 0 /\ ~traceback
              /\ NumCalls("delete_bucket") = 1
              /\ Keys(SourceBucket) = {}
              /\ ~buckets[SourceBucket].exists
              /\ Printed("delete_summary")

\* a confirmed run over 2500 objects that ended with every call returning
C6_Witness ==
    /\ cmd = "delete" /\ pc = "done" /\ confirmed /\ NoCallFailed
    /\ Len(objects) = 2 * BatchSize + BatchSize \div 2
    /\ ~buckets[SourceBucket].exists

----------------------------------------------------------------------------
(* C7 *)

\* C7 (as claimed): a delete run in which a delete_objects batch failed has
\* logged that failure and has still issued every batch of the listing by the
\* time it ends.
C7_FailedBatchNotFatal ==
    (cmd = "delete" /\ pc = "done") =>
        \A i \in 1 .. Len(calls) :
            (calls[i].op = "delete_objects" /\ calls[i].outcome # "ok") =>
                /\ \E k \in 1 .. Len(out) :
                      /\ out[k].kind = "delete_error"
                      /\ out[k].lo = calls[i].lo
                /\ Len(Batches) = CeilDiv(Len(objects), BatchSize)

----------------------------------------------------------------------------
(* C8 *)

\* the assets of a sync run whose download or upload failed
SyncFailedCalls ==
    {i \in 1 .. Len(calls) :
        calls[i].op \in {"download", "upload_file"} /\ calls[i].outcome # "ok"}

\* C8 (as claimed): what a run reports as copied, removed or uploaded holds no
\* item that failed, and every failed item is counted as failed: the copy
\* summary counts the failed attempts, a delete run reports objects deleted
\* only when no batch failed, the sync table has a red row per failed asset.
C8_FailuresReported ==
    /\ (cmd = "copy" /\ Printed("copy_summary")) =>
          /\ failed_count = Cardinality(FailedAttempts)
          /\ success_count = NumCallsWith("put_object", "ok")
    /\ (cmd = "delete" /\ (Printed("deleted_objects") \/ Printed("delete_summary"))) =>
          \A i \in 1 .. Len(calls) :
              calls[i].op = "delete_objects" => calls[i].outcome = "ok"
    /\ (cmd = "sync" /\ Printed("sync_summary")) =>
          /\ Cardinality({k \in 1 .. Len(results) : results[k].color = "red"})
                = Cardinality(SyncFailedCalls)
          /\ SyncSuccessCount(results) = NumCallsWith("upload_file", "ok")

----------------------------------------------------------------------------
(* C9 *)

\* the items of the run that failed
FailedItems ==
    CASE cmd = "copy" -> Cardinality(FailedAttempts)
      [] cmd = "delete" ->
            Cardinality({i \in 1 .. Len(calls) :
                calls[i].op = "delete_objects" /\ calls[i].outcome # "ok"})
      [] OTHER -> Cardinality(SyncFailedCalls)

\* the run got to its final summary
Summarised ==
    Printed("copy_summary") \/ Printed("delete_summary") \/ Printed("sync_summary")

\* C9 (as claimed): a run with a failed item ends with a non-zero exit status,
\* and a run that gets to its summary with no failed item ends with 0.
C9_ExitStatusReflectsFailures ==
    pc = "done" =>
        /\ FailedItems > 0 => rc # 0
        /\ (Summarised /\ FailedItems = 0) => rc = 0

----------------------------------------------------------------------------
(* C10 *)

\* C10: throughout a copy run success_count + failed_count is the number of
\* listed objects that have an outcome (success_count the puts that returned,
\* failed_count the failed attempts), and the summary is printed only when
\* every listed object has one: it then adds up to the length of the listing.
C10_CountsAddUp ==
    cmd = "copy" =>
        /\ success_count = NumCallsWith("put_object", "ok")
        /\ failed_count = NumCallsWith("get_object", "ClientError")
                             + NumCallsWith("put_object", "ClientError")
        /\ success_count + failed_count = idx
        /\ idx <= Len(objects)
        /\ \A k \in 1 .. Len(out) :
              out[k].kind = "copy_summary" =>
                  /\ out[k].copied + out[k].failed = Len(objects)
                  /\ out[k].copied = success_count
                  /\ out[k].failed = failed_count
                  /\ \A j \in 1 .. Len(objects) : Attempted(objects[j])

\* a summary over three listed objects with both successes and failures
C10_Witness ==
    /\ cmd = "copy" /\ pc = "done"
    /\ Len(objects) = 3
    /\ \E k \in 1 .. Len(out) :
          out[k].kind = "copy_summary" /\ out[k].copied >= 1 /\ out[k].failed >= 1

----------------------------------------------------------------------------
(* C11 *)

\* the run before this one
LastRun == start.earlier[Len(start.earlier)]

\* C11: when a copy run that copied everything without a failure is followed
\* by a second run of the same command in which no remote call fails, the
\* second run leaves the target bucket exactly as it found it (the object set
\* the first run left), counts zero failures and returns 0.
C11_CopyIdempotent ==
    (/\ cmd = "copy" /\ Len(start.earlier) >= 1
     /\ LastRun.summarised /\ LastRun.failed = 0
     /\ pc = "done" /\ confirmed /\ NoCallFailed)
    => /\ buckets[TargetBucket] = start.target
       /\ Printed("copy_summary")
       /\ success_count = Len(objects)
       /\ failed_count = 0
       /\ rc = 0

\* a second run over two or more objects, after a first run without failures
C11_Witness ==
    /\ cmd = "copy" /\ Len(start.earlier) >= 1
    /\ LastRun.summarised /\ LastRun.failed = 0
    /\ pc = "done" /\ confirmed /\ NoCallFailed
    /\ Len(objects) >= 2
    /\ NumCallsWith("put_object", "ok") = Len(objects)
    /\ Keys(TargetBucket) = Keys(SourceBucket)

----------------------------------------------------------------------------
(* C12 *)

\* C12: once a copy run has printed its summary with zero failures, every key
\* of the source bucket is in the target bucket with the size and the content
\* type of the source object, and the summary reads succeeded = number of
\* source objects, failed = 0.
C12_CopyCopiesEverything ==
    (cmd = "copy" /\ Printed("copy_summary") /\ failed_count = 0) =>
        /\ \A k \in Keys(SourceBucket) :
              /\ k \in Keys(TargetBucket)
              /\ buckets[TargetBucket].objs[k].size = buckets[SourceBucket].objs[k].size
              /\ buckets[TargetBucket].objs[k].ctype = buckets[SourceBucket].objs[k].ctype
        /\ \A i \in 1 .. Len(out) :
              out[i].kind = "copy_summary" =>
                  /\ out[i].copied = Cardinality(Keys(SourceBucket))
                  /\ out[i].failed = 0

\* three objects of 10, 20 and 0 bytes copied into an existing empty bucket:
\* succeeded 3, failed 0
C12_Witness ==
    /\ cmd = "copy" /\ pc = "done"
    /\ start.target = [exists |-> TRUE, objs |-> EmptyObjs]
    /\ Keys(SourceBucket) = {1, 2, 3}
    /\ buckets[SourceBucket].objs[1].size = 10
    /\ buckets[SourceBucket].objs[2].size = 20
    /\ buckets[SourceBucket].objs[3].size = 0
    /\ out = << [kind |-> "copy_summary", copied |-> 3, failed |-> 0] >>
    /\ Keys(TargetBucket) = {1, 2, 3}
    /\ \A k \in 1 .. 3 : buckets[TargetBucket].objs[k] = buckets[SourceBucket].objs[k]

----------------------------------------------------------------------------
(* C13 *)

\* C13: in every state of a copy run whose target bucket held no object when
\* the run started (so also in the state a crash leaves), the keys of the
\* target are keys of the source and every object of the target has the size
\* and content type of the source object under the same key.
C13_TargetIsPartOfSource ==
    (cmd = "copy" /\ DOMAIN start.target.objs = {}) =>
        /\ Keys(TargetBucket) \subseteq Keys(SourceBucket)
        /\ \A k \in Keys(TargetBucket) :
              /\ buckets[TargetBucket].objs[k].size = buckets[SourceBucket].objs[k].size
              /\ buckets[TargetBucket].objs[k].ctype = buckets[SourceBucket].objs[k].ctype

\* a run that crashed after a failed put, with some objects copied and others not
C13_Witness ==
    /\ cmd = "copy" /\ pc = "done" /\ traceback
    /\ DOMAIN start.target.objs = {}
    /\ Keys(TargetBucket) # {}
    /\ Keys(TargetBucket) # Keys(SourceBucket)
    /\ NumCallsWith("put_object", "Other") = 1

----------------------------------------------------------------------------
(* C14 *)

\* C14: in a copy run the i-th object attempted (the i-th get_object) is the
\* i-th object of the listing, the put of an object directly follows its get,
\* and the outcomes counted so far are those of the first idx listed objects.
C14_AttemptsInListingOrder ==
    cmd = "copy" =>
        /\ NumCalls("get_object") <= Len(objects)
        /\ \A i \in 1 .. NumCalls("get_object") :
              CallsOf("get_object")[i].key = objects[i]
        /\ \A i \in 1 .. Len(calls) :
              calls[i].op = "put_object" =>
                  /\ calls[i - 1].op = "get_object"
                  /\ calls[i - 1].key = calls[i].key
        /\ idx <= NumCalls("get_object")
        /\ NumCalls("get_object") <= idx + 1

\* three listed objects attempted, the second one failed
C14_Witness ==
    /\ cmd = "copy" /\ Len(objects) = 3
    /\ NumCalls("get_object") = 3
    /\ CallsOf("get_object")[2].outcome = "ClientError"
    /\ CallsOf("get_object")[3].outcome = "ok"

----------------------------------------------------------------------------
(* C15 *)

\* C15: when no request fails, list_objects asks for page after page, each
\* request continuing where the page before ended, until the keys of the
\* bucket are exhausted, and returns as many records as the bucket has
\* objects, pairwise distinct, one for every key of the bucket, whatever the
\* number of keys per page.
C15_PaginationTransparent ==
    (cmd = "list_objects" /\ pc = "done" /\ NoCallFailed) =>
        /\ Len(objects) = Cardinality(Keys(SourceBucket))
        /\ \A i, j \in 1 .. Len(objects) : objects[i] = objects[j] => i = j
        /\ {objects[i] : i \in 1 .. Len(objects)} = Keys(SourceBucket)
        /\ Len(calls) >= 1
        /\ calls[1].token = 0
        /\ \A j \in 1 .. (Len(calls) - 1) :
              calls[j + 1].token = calls[j].token + calls[j].count
        /\ calls[Len(calls)].token + calls[Len(calls)].count = Len(objects)

\* five objects listed in three pages of two, two and one
C15_Witness ==
    /\ cmd = "list_objects" /\ pc = "done" /\ NoCallFailed
    /\ Cardinality(Keys(SourceBucket)) = 5
    /\ Len(calls) = 3
    /\ calls[1].count = 2 /\ calls[3].count = 1
    /\ objects = KeySeq(5)

----------------------------------------------------------------------------
(* C16 *)

\* C16 (as claimed): list_objects on a bucket that does not exist ends with an
\* error raised to its caller, never with a returned list, so that the caller
\* can tell it from an empty bucket; on an existing bucket without objects,
\* when no request fails, it returns the empty list and raises nothing.
C16_MissingBucketIsAnError ==
    (cmd = "list_objects" /\ pc = "done") =>
        /\ ~buckets[SourceBucket].exists => traceback
        /\ (buckets[SourceBucket].exists /\ Keys(SourceBucket) = {} /\ NoCallFailed) =>
              (objects = << >> /\ ~traceback /\ out = << >>)

----------------------------------------------------------------------------
(* C17 *)

\* the URLs the structured asset list of the release offers
AssetUrls == {release.assets[i].browser_download_url : i \in 1 .. Len(release.assets)}

\* the URLs the body of the release mentions
BodyUrls == {release.body[i].url : i \in 1 .. Len(release.body)}

\* the URLs the run has tried to download
DownloadedUrls == {calls[i].url : i \in {j \in 1 .. Len(calls) : calls[j].op = "download"}}

\* C17: a sync run uses one source of downloads. When the release has a
\* non-empty asset list, nothing is taken from the body: no download was
\* parsed out of it, no parse warning was printed, and every URL downloaded is
\* the URL of a structured asset, even if the body holds links the parse would
\* accept. Body links are downloaded only when the asset list is empty.
C17_OneStrategy ==
    (cmd = "sync" /\ release # NoRelease) =>
        /\ release.assets # << >> =>
              /\ crabnebula_downloads = << >>
              /\ ~Printed("unknown_platform")
              /\ DownloadedUrls \subseteq AssetUrls
              /\ DownloadedUrls \cap BodyUrls = {}
        /\ release.assets = << >> =>
              DownloadedUrls \subseteq BodyUrls

\* a finished run over structured assets whose body also holds a link the
\* parse accepts
C17_Witness ==
    /\ cmd = "sync" /\ pc = "done"
    /\ release.assets # << >>
    /\ \E i \in 1 .. Len(release.body) :
          /\ release.body[i].form = "link"
          /\ release.body[i].url.host = CDN_HOST
          /\ Search(<<"macos", "apple silicon">>, release.body[i].label)
    /\ Cardinality(DownloadedUrls) = 2
    /\ Printed("sync_summary")

----------------------------------------------------------------------------
(* C18 *)

\* C18 (as claimed): in a run over structured assets the asset taken for a
\* table entry matches no earlier entry of the table: an asset whose name
\* holds two patterns is taken for the earlier entry only, and no asset URL
\* is stored under two canonical filenames.
C18_FirstMatchWins ==
    (cmd = "sync" /\ release.assets # << >>) =>
        /\ \A i \in 1 .. Len(results) :
              results[i].status # "Not found" =>
                  \A a \in 1 .. Len(release.assets) :
                      \A j \in 1 .. (i - 1) :
                          ~(/\ Contains(release.assets[a].name, GITHUB_ASSET_MAPPINGS[i].pattern)
                            /\ Contains(release.assets[a].name, GITHUB_ASSET_MAPPINGS[j].pattern)
                            /\ \A b \in 1 .. (a - 1) :
                                  ~Contains(release.assets[b].name,
                                            GITHUB_ASSET_MAPPINGS[i].pattern))
        /\ \A k1, k2 \in (DOMAIN clients.objs) \ {"version.txt"} :
              clients.objs[k1].body.url = clients.objs[k2].body.url => k1 = k2

----------------------------------------------------------------------------
(* C19 *)

\* the link-syntax references of the body to macOS (Apple Silicon)
AppleSiliconLinks ==
    {i \in 1 .. Len(release.body) :
        /\ release.body[i].form = "link"
        /\ Search(<<"macos", "apple silicon">>, release.body[i].label)}

\* the reference resolves to cap-macos-arm64.dmg, application/octet-stream
ResolvedAppleSilicon(url) ==
    \E k \in 1 .. Len(crabnebula_downloads) :
        /\ crabnebula_downloads[k].url = url
        /\ crabnebula_downloads[k].target_name = "cap-macos-arm64.dmg"
        /\ crabnebula_downloads[k].content_type = "application/octet-stream"

\* C19 (as claimed): in a release without structured assets every link-syntax
\* reference [macOS (Apple Silicon)](URL) of the body resolves to
\* cap-macos-arm64.dmg with content type application/octet-stream, whatever
\* the host of the URL.
C19_LinkResolvedAnyHost ==
    (cmd = "sync" /\ release # NoRelease /\ release.assets = << >>) =>
        \A i \in AppleSiliconLinks : ResolvedAppleSilicon(release.body[i].url)

\* C19 (amended): in a release without structured assets a link-syntax
\* reference [macOS (Apple Silicon)](URL) whose URL is on cdn.crabnebula.app
\* resolves to cap-macos-arm64.dmg with content type application/octet-stream;
\* a reference whose URL is on any other host is not extracted: no resolved
\* download carries its URL.
C19_LinkResolvedOnCdn ==
    (cmd = "sync" /\ release # NoRelease /\ release.assets = << >>) =>
        /\ \A i \in AppleSiliconLinks :
              release.body[i].url.host = CDN_HOST =>
                  ResolvedAppleSilicon(release.body[i].url)
        /\ \A k \in 1 .. Len(crabnebula_downloads) :
              crabnebula_downloads[k].url.host = CDN_HOST
        /\ (\A i \in 1 .. Len(release.body) : release.body[i].url.host # CDN_HOST) =>
              crabnebula_downloads = << >>

\* a finished run on a body with a macOS (Apple Silicon) link on the CDN and
\* a link on another host
C19_Witness ==
    /\ cmd = "sync" /\ pc = "done"
    /\ release.assets = << >>
    /\ \E i \in AppleSiliconLinks : release.body[i].url.host = CDN_HOST
    /\ \E i \in 1 .. Len(release.body) :
          release.body[i].form = "link" /\ release.body[i].url.host # CDN_HOST
    /\ \E i \in 1 .. Len(calls) :
          calls[i].op = "upload_file" /\ calls[i].key = "cap-macos-arm64.dmg"

----------------------------------------------------------------------------
(* C20 *)

\* entry k of CRABNEBULA_MAPPINGS is the first whose pattern matches the label
FirstPlatform(k, label) ==
    /\ Search(CRABNEBULA_MAPPINGS[k].pattern, label)
    /\ \A j \in 1 .. (k - 1) : ~Search(CRABNEBULA_MAPPINGS[j].pattern, label)

----------------------------------------------------------------------------
(* C21 *)

\* the place of an extraction pattern in the list of patterns
FormRank(form) == CASE form = "link" -> 1 [] form = "bold" -> 2 [] OTHER -> 3

\* mention i of the body is captured before mention j
CapturedBefore(i, j) ==
    \/ FormRank(release.body[i].form) < FormRank(release.body[j].form)
    \/ FormRank(release.body[i].form) = FormRank(release.body[j].form) /\ i < j

\* C21: when the body is parsed, no two resolved downloads have the same URL,
\* however many of the three forms mention it, and the label of a resolved
\* download is the label of the mention of its URL that is captured first:
\* by the earliest extraction pattern, and within one pattern the earliest in
\* the body.
C21_DedupByUrl ==
    (cmd = "sync" /\ release # NoRelease /\ release.assets = << >>) =>
        /\ \A d1, d2 \in 1 .. Len(crabnebula_downloads) :
              crabnebula_downloads[d1].url = crabnebula_downloads[d2].url => d1 = d2
        /\ \A d \in 1 .. Len(crabnebula_downloads) :
              \E i \in 1 .. Len(release.body) :
                  /\ release.body[i].url = crabnebula_downloads[d].url
                  /\ release.body[i].label = crabnebula_downloads[d].platform_text
                  /\ \A j \in 1 .. Len(release.body) :
                        release.body[j].url = release.body[i].url => ~CapturedBefore(j, i)

\* a body that mentions one URL in bold, as a link and as a bullet: resolved
\* once, under the label of the link
C21_Witness ==
    /\ cmd = "sync" /\ pc = "sync_connect"
    /\ release.assets = << >>
    /\ \E u \in BodyUrls :
          /\ \A form \in {"link", "bold", "bullet"} :
                \E i \in 1 .. Len(release.body) :
                    release.body[i].url = u /\ release.body[i].form = form
          /\ \E d \in 1 .. Len(crabnebula_downloads) :
                /\ crabnebula_downloads[d].url = u
                /\ crabnebula_downloads[d].target_name = "cap-macos-x64.dmg"
    /\ Len(crabnebula_downloads) = 2

----------------------------------------------------------------------------
(* C22 *)

\* no asset of the release has a name that holds the pattern of table entry i
EntryUnmatched(i) ==
    \A a \in 1 .. Len(release.assets) :
        ~Contains(release.assets[a].name, GITHUB_ASSET_MAPPINGS[i].pattern)

\* the name of asset a holds the pattern of no table entry
AssetUnmatched(a) ==
    \A i \in 1 .. Len(GITHUB_ASSET_MAPPINGS) :
        ~Contains(release.assets[a].name, GITHUB_ASSET_MAPPINGS[i].pattern)

\* the rows of the results that read "Not found"
NotFoundRows == {k \in 1 .. Len(results) : results[k].status = "Not found"}

\* every table entry so far has its row, and an entry without an asset has a
\* yellow "Not found" row and nothing else: no upload under its filename
UnmatchedEntriesNotFound ==
    /\ Len(results) <= Len(GITHUB_ASSET_MAPPINGS)
    /\ \A i \in 1 .. Len(results) :
          /\ results[i].filename = GITHUB_ASSET_MAPPINGS[i].target_name
          /\ EntryUnmatched(i) <=> results[i].status = "Not found"
          /\ EntryUnmatched(i) =>
                /\ results[i].color = "yellow"
                /\ \A c \in 1 .. Len(calls) :
                      calls[c].op = "upload_file" =>
                          calls[c].key # GITHUB_ASSET_MAPPINGS[i].target_name
    /\ NumCalls("download")
          <= Cardinality({i \in 1 .. Len(GITHUB_ASSET_MAPPINGS) : ~EntryUnmatched(i)})

----------------------------------------------------------------------------
(* C23 *)

\* a version tag was asked for and no upstream release carries it
TagMissingUpstream ==
    args.version # "" /\ \A r \in Releases : r.tag_name # args.version

\* the calls that touch the bucket
IsBucketCall(c) == c.op \in {"head_bucket", "upload_file", "put_object"}

\* C23: once the lookup of a sync run has answered not-found, or the tag asked
\* for is not upstream, the run is over with a non-zero exit status and has
\* done nothing but the lookup: no bucket check, no download, no upload, no
\* version.txt write, no working directory, nothing in the bucket.
C23_MissingTagNoBucketOps ==
    (/\ cmd = "sync" /\ pc # "sync_fetch"
     /\ (calls[1].outcome = "404" \/ TagMissingUpstream)) =>
        /\ pc = "done"
        /\ rc # 0
        /\ Len(calls) = 1
        /\ \A i \in 1 .. Len(calls) : ~IsBucketCall(calls[i]) /\ calls[i].op # "download"
        /\ release = NoRelease
        /\ temp_dir = "none"
        /\ DOMAIN clients.objs = {}

\* the tag v9.9.9 was asked for and the lookup answered not-found
C23_Witness ==
    /\ cmd = "sync" /\ pc = "done"
    /\ args.version = "v9.9.9" /\ TagMissingUpstream
    /\ calls = << [op |-> "get_release", version |-> "v9.9.9", outcome |-> "404"] >>
    /\ rc = 1

----------------------------------------------------------------------------
(* C24 *)

\* the release was found and offers nothing: no structured asset, and no
\* link of the body was resolved
EmptyResolution ==
    release # NoRelease /\ release.assets = << >> /\ crabnebula_downloads = << >>

\* C24: a sync run whose release was found but offers no structured asset and
\* no parseable body link goes on after the resolution, downloads nothing and
\* uploads no asset, has no result row, raises nothing, and once the bucket
\* check has returned it ends with its summary (0 uploaded) and exit status 0.
C24_EmptyReleaseIsNoError ==
    (cmd = "sync" /\ EmptyResolution) =>
        /\ Len(calls) = 1 => pc = "sync_connect"
        /\ ~Issued("download") /\ ~Issued("upload_file")
        /\ results = << >>
        /\ ~traceback
        /\ (pc = "done" /\ NumCallsWith("head_bucket", "ok") = 1) =>
              /\ rc = 0
              /\ \E k \in 1 .. Len(out) :
                    out[k].kind = "sync_summary" /\ out[k].uploaded = 0

\* a finished run on a release without assets whose body has a link, but none
\* that the parse accepts
C24_Witness ==
    /\ cmd = "sync" /\ pc = "done" /\ EmptyResolution
    /\ release.body # << >>
    /\ rc = 0 /\ Printed("sync_summary")
    /\ ~Issued("download")

----------------------------------------------------------------------------
(* C25 *)

\* C25 (as claimed): between two assets of the sync loop, and after the loop,
\* the working directory holds no temporary file: the file of every asset
\* processed so far is gone, however its processing ended.
C25_TempFileGoneAfterEachAsset ==
    (cmd = "sync" /\ pc \in {"sync_loop", "done"}) => DOMAIN temp_files = {}

----------------------------------------------------------------------------
(* C26 *)

\* C26: a sync run that created its working directory has removed it, with
\* every file in it, by the time it ends, whether the loop ran to its end,
\* assets failed, or an exception left the loop; the directory exists only
\* while the loop runs.
C26_TempDirRemovedAtExit ==
    cmd = "sync" =>
        /\ (pc = "done" /\ temp_dir # "none") =>
              (temp_dir = "removed" /\ DOMAIN temp_files = {})
        /\ temp_dir = "created" <=> pc = "sync_loop"
        /\ temp_dir = "none" => DOMAIN temp_files = {}

\* a run that an exception of an upload ended, after a download had left a
\* part-written file behind
C26_Witness ==
    /\ cmd = "sync" /\ pc = "done" /\ traceback
    /\ temp_dir = "removed"
    /\ NumCallsWith("download", "partial") >= 1
    /\ NumCallsWith("upload_file", "Other") = 1

----------------------------------------------------------------------------
(* C27 *)

\* call i is the write of version.txt
IsVersionWrite(i) == calls[i].op = "put_object" /\ calls[i].key = "version.txt"

\* C27: in a sync run the write of version.txt is the last call and is issued
\* when every resolved asset has its result row, whatever the rows say; a run
\* that left the asset loop without an exception has issued it, also when no
\* asset was uploaded; and the object written is the tag of the release
\* followed by one newline, as text/plain.
C27_VersionWrittenAfterAllAssets ==
    cmd = "sync" =>
        /\ \A i \in 1 .. Len(calls) :
              IsVersionWrite(i) =>
                  /\ i = Len(calls)
                  /\ idx = SyncItems
                  /\ Len(results) = SyncItems
                  /\ calls[i].outcome = "ok" =>
                        /\ "version.txt" \in DOMAIN clients.objs
                        /\ clients.objs["version.txt"].body = <<release.tag_name, "\n">>
                        /\ clients.objs["version.txt"].ctype = "text/plain"
        /\ (pc = "done" /\ temp_dir = "removed" /\ ~traceback) =>
              \E i \in 1 .. Len(calls) : IsVersionWrite(i)
        /\ "version.txt" \in DOMAIN clients.objs =>
              \E i \in 1 .. Len(calls) : IsVersionWrite(i) /\ calls[i].outcome = "ok"

\* version.txt written after a loop over two or more assets of which none
\* was uploaded
C27_Witness ==
    /\ cmd = "sync" /\ pc = "done"
    /\ Len(results) >= 2
    /\ \A k \in 1 .. Len(results) : results[k].color # "green"
    /\ NumCalls("download") >= 2
    /\ "version.txt" \in DOMAIN clients.objs
    /\ clients.objs["version.txt"].body = <<"cap-v0.4.1", "\n">>

----------------------------------------------------------------------------
(* C28 *)

\* the write of version.txt was issued and did not return
VersionWriteFailed ==
    \E i \in 1 .. Len(calls) : IsVersionWrite(i) /\ calls[i].outcome # "ok"

\* C28: once the write of version.txt has been issued, with whatever outcome,
\* the run ends as it ends when the write returns: no exception, exit status
\* 0, the table printed with the rows of the loop, and the summary counting
\* the green rows out of all rows (out of the table size when there is none).
C28_VersionWriteBestEffort ==
    (cmd = "sync" /\ \E i \in 1 .. Len(calls) : IsVersionWrite(i)) =>
        /\ pc = "done"
        /\ ~traceback
        /\ rc = 0
        /\ Len(out) >= 2
        /\ out[Len(out) - 1] = [kind |-> "sync_table", results |-> results]
        /\ out[Len(out)] =
              [kind |-> "sync_summary",
               uploaded |-> Cardinality({k \in 1 .. Len(results) : results[k].color = "green"}),
               total |-> IF results = << >> THEN Len(GITHUB_ASSET_MAPPINGS) ELSE Len(results)]

\* a run with an uploaded asset whose version.txt write raised an exception
\* that is not a ClientError
C28_Witness ==
    /\ cmd = "sync" /\ pc = "done"
    /\ VersionWriteFailed
    /\ calls[Len(calls)].outcome = "Other"
    /\ "version.txt" \notin DOMAIN clients.objs
    /\ NumCallsWith("upload_file", "ok") >= 1
    /\ Printed("sync_summary")

----------------------------------------------------------------------------
(* C29 *)

\* the rows of the results that record a failure
RedRows == {k \in 1 .. Len(results) : results[k].color = "red"}

\* C29 (as claimed): once a sync run that entered the asset loop has ended,
\* every resolved asset has its row, every download or upload that failed,
\* in whatever way, is a red row, and no failure of an asset has ended the
\* run with an exception.
C29_AssetFailureNotFatal ==
    (cmd = "sync" /\ pc = "done" /\ temp_dir # "none") =>
        /\ Len(results) = SyncItems
        /\ Cardinality(RedRows) = Cardinality(SyncFailedCalls)
        /\ ~traceback

----------------------------------------------------------------------------
(* C30 *)

\* call i is a transfer of one object of a copy run or one asset of a sync
\* run that ran into its timeout: botocore raises ReadTimeoutError or
\* ConnectTimeoutError, which are not ClientError
TimedOut(i) ==
    /\ calls[i].outcome = "Other"
    /\ \/ cmd = "copy" /\ IsObjectCall(calls[i])
       \/ cmd = "sync" /\ calls[i].op = "upload_file"

\* C30 (as claimed): a transfer that runs into its timeout does not abort the
\* run: nothing is raised, the item is counted as failed, and a run that has
\* ended has gone through all its items.
C30_TimeoutIsItemFailure ==
    \A i \in 1 .. Len(calls) :
        TimedOut(i) =>
            /\ ~traceback
            /\ cmd = "copy" => failed_count >= 1
            /\ cmd = "sync" => RedRows # {}
            /\ pc = "done" =>
                  IF cmd = "copy" THEN idx = Len(objects) ELSE Len(results) = SyncItems

----------------------------------------------------------------------------
(* C31 *)

\* the delete_bucket call was issued and did not return
BucketDeleteFailed ==
    \E i \in 1 .. Len(calls) : calls[i].op = "delete_bucket" /\ calls[i].outcome # "ok"

\* the j-th listed key was in a delete_objects request that returned
DeletedByBatch(j) ==
    \E i \in 1 .. Len(calls) :
        /\ calls[i].op = "delete_objects" /\ calls[i].outcome = "ok"
        /\ calls[i].lo < j /\ j <= calls[i].hi

\* C31: a delete run whose delete_bucket call failed has ended with a
\* non-zero exit status and a report of the failure and without the final
\* panel; the bucket still exists and holds exactly the objects it held at
\* the start less those of the batches that returned, each as it was; the run
\* has created no bucket and written no object.
C31_BucketDeleteFailureNoRollback ==
    (cmd = "delete" /\ BucketDeleteFailed) =>
        /\ pc = "done"
        /\ rc # 0
        /\ Printed("delete_bucket_error") \/ traceback
        /\ ~Printed("delete_summary")
        /\ buckets[SourceBucket].exists
        /\ Keys(SourceBucket) \subseteq DOMAIN start.source.objs
        /\ \A k \in Keys(SourceBucket) :
              buckets[SourceBucket].objs[k] = start.source.objs[k]
        /\ \A j \in 1 .. Len(objects) :
              objects[j] \in Keys(SourceBucket) <=> ~DeletedByBatch(j)
        /\ Cardinality(Keys(SourceBucket))
              = Cardinality(DOMAIN start.source.objs)
                  - Cardinality({j \in 1 .. Len(objects) : DeletedByBatch(j)})
        /\ ~Issued("put_object") /\ ~Issued("create_bucket")

\* 1500 objects: the first batch returned, the second failed, and the bucket,
\* not empty, could not be deleted
C31_Witness ==
    /\ cmd = "delete" /\ pc = "done" /\ rc = 1 /\ ~traceback
    /\ Len(objects) = BatchSize + BatchSize \div 2
    /\ NumCallsWith("delete_objects", "ok") = 1
    /\ NumCallsWith("delete_objects", "ClientError") = 1
    /\ NumCallsWith("delete_bucket", "ClientError") = 1
    /\ Cardinality(Keys(SourceBucket)) = BatchSize \div 2

----------------------------------------------------------------------------
(* C33 *)

\* the run ended at the confirmation prompt: the user answered no
Declined == pc = "done" /\ Printed("cancelled")

\* C33 (as claimed): a copy or delete run the user declined at the
\* confirmation prompt has returned 0 and has left both stores as they were:
\* no bucket created, no object written, no object deleted, no bucket deleted.
C33_DeclineLeavesStoresUnchanged ==
    (cmd \in {"copy", "delete"} /\ Declined) =>
        /\ rc = 0 /\ ~traceback
        /\ buckets[SourceBucket] = start.source
        /\ buckets[TargetBucket] = start.target
        /\ ~Issued("create_bucket") /\ ~Issued("put_object")
        /\ ~Issued("delete_objects") /\ ~Issued("delete_bucket")

----------------------------------------------------------------------------
(* C34 *)

\* call i is a put_object that directly follows the get_object of the same
\* key, and that get_object (with the read of its body) returned
PutAfterFetch(i) ==
    /\ i > 1
    /\ calls[i - 1].op = "get_object"
    /\ calls[i - 1].key = calls[i].key
    /\ calls[i - 1].outcome = "ok"

\* the log holds a put_object of key k that returned
PutReturned(k) ==
    \E i \in 1 .. Len(calls) :
        calls[i].op = "put_object" /\ calls[i].key = k /\ calls[i].outcome = "ok"

\* C34: in a copy run every put_object directly follows the get_object of the
\* same key, which returned; a get_object that failed is followed by no
\* put_object of its key; no key is put twice; and a key of the target that is
\* not as it was at the start was put by a put_object that returned.
C34_WriteOnlyAfterFetch ==
    cmd = "copy" =>
        /\ \A i \in 1 .. Len(calls) :
              calls[i].op = "put_object" => PutAfterFetch(i)
        /\ \A i \in 1 .. Len(calls) :
              (calls[i].op = "get_object" /\ calls[i].outcome # "ok") =>
                  \A j \in 1 .. Len(calls) :
                      calls[j].op = "put_object" => calls[j].key # calls[i].key
        /\ \A i, j \in 1 .. Len(calls) :
              (calls[i].op = "put_object" /\ calls[j].op = "put_object"
                  /\ calls[i].key = calls[j].key) => i = j
        /\ \A k \in Keys(TargetBucket) :
              \/ k \in DOMAIN start.target.objs
                    /\ buckets[TargetBucket].objs[k] = start.target.objs[k]
              \/ PutReturned(k)

\* a finished copy of several objects in which one fetch failed and another
\* object was fetched and written: the first is not in the target
C34_Witness ==
    /\ cmd = "copy" /\ pc = "done" /\ ~traceback
    /\ Len(objects) >= 2
    /\ start.target.objs = EmptyObjs
    /\ \E i \in 1 .. Len(calls) :
          /\ calls[i].op = "get_object" /\ calls[i].outcome = "ClientError"
          /\ calls[i].key \notin Keys(TargetBucket)
    /\ \E i \in 1 .. Len(calls) :
          /\ calls[i].op = "put_object" /\ calls[i].outcome = "ok"
          /\ calls[i].key \in Keys(TargetBucket)

----------------------------------------------------------------------------
(* C35 *)

\* every key the bucket held when the call started, in listing order
CompleteListing == KeySeq(Cardinality(DOMAIN start.source.objs))

\* C35: once list_objects is over, what the caller holds is the complete
\* listing of the bucket when every page request returned, and the empty list
\* when a page request failed (a ClientError returns [], any other exception
\* leaves the function without a value); it is never a non-empty part of the
\* listing.
C35_ListingAllOrNothing ==
    (cmd = "list_objects" /\ pc = "done") =>
        /\ NoCallFailed => (objects = CompleteListing /\ ~traceback)
        /\ ~NoCallFailed => objects = << >>
        /\ objects \in {CompleteListing, << >>}

\* the bucket took several pages; the first pages arrived with their keys and
\* a later request raised ClientError: the caller got the empty list
C35_Witness ==
    /\ cmd = "list_objects" /\ pc = "done" /\ ~traceback
    /\ Len(calls) >= 3
    /\ calls[1].outcome = "ok" /\ calls[1].count > 0
    /\ calls[2].outcome = "ok" /\ calls[2].count > 0
    /\ calls[Len(calls)].outcome = "ClientError"
    /\ Printed("list_error")
    /\ objects = << >>
    /\ CompleteListing # << >>

----------------------------------------------------------------------------
(* C36 *)

\* call i is an upload_file that directly follows the download of the same
\* asset, and download_file wrote the whole body
UploadAfterDownload(i) ==
    /\ i > 1
    /\ calls[i - 1].op = "download"
    /\ calls[i - 1].dest = calls[i].key
    /\ calls[i - 1].outcome = "ok"

\* C36: in a sync run every upload_file directly follows the download of the
\* same asset, which wrote the whole file; a download that failed or broke
\* off part-way is followed by no upload; and every asset in the bucket is a
\* whole file.
C36_UploadOnlyAfterDownload ==
    cmd = "sync" =>
        /\ \A i \in 1 .. Len(calls) :
              calls[i].op = "upload_file" => UploadAfterDownload(i)
        /\ \A i \in 1 .. Len(calls) :
              (calls[i].op = "download" /\ calls[i].outcome # "ok" /\ i < Len(calls)) =>
                  calls[i + 1].op # "upload_file"
        /\ \A k \in (DOMAIN clients.objs) \ {"version.txt"} :
              clients.objs[k].body.whole

\* a finished sync in which one download broke off part-way and another asset
\* was downloaded and uploaded: only the second is in the bucket
C36_Witness ==
    /\ cmd = "sync" /\ pc = "done" /\ ~traceback
    /\ \E i \in 1 .. Len(calls) :
          /\ calls[i].op = "download" /\ calls[i].outcome = "partial"
          /\ calls[i].dest \notin DOMAIN clients.objs
    /\ \E i \in 1 .. Len(calls) :
          /\ calls[i].op = "upload_file" /\ calls[i].outcome = "ok"
          /\ calls[i].key \in DOMAIN clients.objs

----------------------------------------------------------------------------
(* C37 *)

\* the upload_file calls of the run
Uploads == {i \in 1 .. Len(calls) : calls[i].op = "upload_file"}

\* C37 (as claimed): within one sync run no two resolved assets have the same
\* canonical filename, and no two upload_file calls store under the same key.
C37_OneUploadPerFilename ==
    cmd = "sync" =>
        /\ \A i, j \in Uploads : calls[i].key = calls[j].key => i = j
        /\ release.assets = << >> =>
              \A i, j \in 1 .. Len(crabnebula_downloads) :
                  crabnebula_downloads[i].target_name = crabnebula_downloads[j].target_name
                      => i = j

----------------------------------------------------------------------------
(* C32 *)

\* the transport a URL selects: its scheme
Transport(url) ==
    CASE StartsWith(url, HTTPS \o <<"://">>) -> "https"
      [] StartsWith(url, HTTP \o <<"://">>) -> "http"
      [] OTHER -> "none"

\* the address holds a loopback host or the local storage port
LocalAddress(address) ==
    \/ Contains(address, <<"localhost">>)
    \/ Contains(address, <<"127.0.0.1">>)
    \/ Contains(address, <<":9000">>)

\* the transport the rule of the specification gives the address
RuleTransport(address) == IF LocalAddress(address) THEN "http" ELSE "https"

\* C32 (as claimed): in all three scripts, whether or not the address carries
\* a scheme, the client is built for the insecure transport when the address
\* holds a loopback host or port 9000 and for the secure transport otherwise.
C32_TransportByAddress ==
    (cmd = "get_s3_client" /\ pc = "done") =>
        Transport(endpoint_url) = RuleTransport(endpoint)

\* C32 (amended): sync-clients.py and setup-client-bucket.py put the transport
\* of the rule in front of every address; bucket-manager.py does so for an
\* address that does not start with 'http' and uses an address that starts
\* with 'http' as it is, so that a scheme the address carries decides the
\* transport.
C32_TransportByAddressUnlessGiven ==
    (cmd = "get_s3_client" /\ pc = "done") =>
        IF script = "bucket-manager.py" /\ StartsWith(endpoint, HTTP)
        THEN /\ endpoint_url = endpoint
             /\ Transport(endpoint) # "none" => Transport(endpoint_url) = Transport(endpoint)
        ELSE /\ Transport(endpoint_url) = RuleTransport(endpoint)
             /\ SubSeq(endpoint_url, Len(endpoint_url) - Len(endpoint) + 1,
                       Len(endpoint_url)) = endpoint

\* bucket-manager.py was given https://localhost:9000 and keeps the secure
\* transport, where the rule gives the insecure one
C32_Witness ==
    /\ cmd = "get_s3_client" /\ pc = "done"
    /\ script = "bucket-manager.py"
    /\ endpoint = HTTPS \o <<"://", "localhost", ":9000">>
    /\ RuleTransport(endpoint) = "http"
    /\ Transport(endpoint_url) = "https"

----------------------------------------------------------------------------
(* C38 *)

\* policy p is defined on the server as it was when the run started
StillDefined(p) == p = POLICY_NAME => iam.policy = start.iam.policy

\* C38 (as claimed): whenever cmd_policy has returned a non-zero result, every
\* policy the user held before the call is still defined, unchanged, and
\* still attached to the user.
C38_PolicyAllOrNothing ==
    (cmd = "policy" /\ pc = "done" /\ rc # 0) =>
        \A p \in start.iam.attached :
            p \in iam.attached /\ StillDefined(p)

====
